---- MODULE Spec2Model ----
(***************************************************************************)
(* Model of the ETL loader (3_etl_pipeline.py): ETLManager.extract_data,   *)
(* transform_data, load_data, run_data_quality_checks and the driver       *)
(* run_etl_pipeline, over a small warehouse.                               *)
(*                                                                         *)
(* A DataFrame and a warehouse table are sequences of rows (records).  A   *)
(* nullable cell is None (NaN / NaT / NULL) or Some(v).  Timestamps are    *)
(* counted in ticks, TicksPerDay ticks to the day.  An append through      *)
(* to_sql is durable as soon as the statement returns.                     *)
(*                                                                         *)
(* Model of the data generator (1_dataset_download.py):                    *)
(* remove_vietnamese_diacritics, generate_vietnamese_name and the customer *)
(* loop of generate_customers_dataset.  A string the generator builds is   *)
(* the sequence of its Unicode code points.                                *)
(*                                                                         *)
(* Model of the analysis script (5_ml_environment_setup.py):               *)
(* create_rfm_features, basic_customer_segmentation and                    *)
(* save_segmentation_results of MLEnvironmentSetup.                       *)
(***************************************************************************)
EXTENDS Integers, Sequences, FiniteSets, TLC

VARIABLES
    files,          \* data/raw: table name -> rows of the CSV file, for the files that exist
    batch,          \* how many generator batches the files hold (1 or 2)
    datasets,       \* the datasets dict handed from stage to stage
    dim_customer,   \* warehouse tables
    dim_product,
    dim_seller,
    dim_date,
    fact_sales,
    pc,             \* position of run_etl_pipeline
    stages,         \* stages started in the current run, in order
    raisedIn,       \* stage whose exception ended the current run, or "none"
    loggedBy,       \* handlers that logged the exception of the current run
    result,         \* what run_etl_pipeline gave its caller: "none", "success", "failed", "raised"
    queried,        \* what the count queries of run_data_quality_checks returned
    quality_report, \* the report built by run_data_quality_checks, None before
    report_written, \* data_quality_report.json was written in the current run
    runStart,       \* the warehouse tables when the current run started
    runAppends,     \* rows appended by the current run, per table
    lastLoad,       \* the latest load_data call: whether it returned, and on which batch
    rerun           \* the current load_data call follows one that returned on the same files

VARIABLES
    vietnamese_name, \* generate_vietnamese_name: the name drawn from the tables, <<>> before a call
    ascii_name,      \* generate_vietnamese_name: the name it returns
    is_male,         \* generate_vietnamese_name: the gender it returns
    customers_data   \* generate_customers_dataset: the list customers of the records built so far

etl == <<files, batch, datasets, dim_customer, dim_product, dim_seller, dim_date,
         fact_sales, pc, stages, raisedIn, loggedBy, result, queried,
         quality_report, report_written, runStart, runAppends, lastLoad, rerun>>

VARIABLES
    conn,                 \* MLEnvironmentSetup.conn: "none" before connect_to_database, else "open"
    data,                 \* MLEnvironmentSetup.data: name -> DataFrame
    ml_customer_segments, \* the committed rows of the warehouse table
    uncommitted,          \* the table as the open transaction of conn sees it, None outside one
    inserted,             \* save_segmentation_results: turns of the insert loop done
    ml_pc,                \* position of the analysis script
    steps,                \* setup_ml_environment: the steps called so far, in order
    returned              \* what the latest call gave its caller: "none", TRUE, FALSE or "raised"

generator == <<vietnamese_name, ascii_name, is_male, customers_data>>

analysis == <<conn, data, ml_customer_segments, uncommitted, inserted, ml_pc, steps, returned>>

vars == <<etl, generator, analysis>>

-----------------------------------------------------------------------------
(* Bounds *)

TicksPerDay == 2
MaxDay == 3
MaxNulls == 12

-----------------------------------------------------------------------------
(* Nullable cells *)

None == <<>>
Some(v) == <<v>>
IsNull(x) == x = None
Val(x) == x[1]

(* A raw CSV cell of a date column: a timestamp text, a blank, or junk.    *)
TsCell(t) == [text |-> "ts", v |-> t]
BlankCell == [text |-> "blank", v |-> 0]
JunkCell == [text |-> "junk", v |-> 0]

(* pd.to_datetime(..., errors='coerce'): anything unparseable becomes NaT. *)
ToDatetime(cell) == IF cell.text = "ts" THEN Some(cell.v) ELSE None

Days_Truncated(ticks) ==
    IF ticks < 0 THEN 0 - ((0 - ticks) \div TicksPerDay) ELSE ticks \div TicksPerDay

(* Timedelta.days and Timestamp.date(): whole days, rounded down.          *)
Days(ticks) == ticks \div TicksPerDay
DateOf(ts) == IF IsNull(ts) THEN None ELSE Some(Days(Val(ts)))

RECURSIVE Concat(_)
Concat(ss) == IF ss = <<>> THEN <<>> ELSE Head(ss) \o Concat(Tail(ss))

Range(s) == {s[i] : i \in 1..Len(s)}

-----------------------------------------------------------------------------
(* Input files *)

FileTables == {"customers", "products", "sellers", "orders", "order_items",
               "order_payments", "order_reviews"}

DeliveredCells == {BlankCell, JunkCell} \cup {TsCell(t) : t \in TicksPerDay..(3 * TicksPerDay)}

(* Rows of generator batch b (1 or 2) of each file; dlv is the delivered   *)
(* cell of order o1.  Product p3 of the last order item is in no products  *)
(* file.                                                                   *)
BatchRows(t, b, dlv) ==
    CASE t = "customers" ->
           IF b = 1 THEN <<[customer_id |-> "c1", customer_state |-> "SP"]>>
                    ELSE <<[customer_id |-> "c2", customer_state |-> "Hanoi"]>>
      [] t = "products" ->
           IF b = 1 THEN <<[product_id |-> "p1"]>> ELSE <<[product_id |-> "p2"]>>
      [] t = "sellers" ->
           IF b = 1 THEN <<[seller_id |-> "s1"]>> ELSE <<>>
      [] t = "orders" ->
           IF b = 1
           THEN <<[order_id |-> "o1", customer_id |-> "c1",
                   order_purchase_timestamp |-> TsCell(TicksPerDay),
                   order_delivered_customer_date |-> dlv,
                   order_estimated_delivery_date |-> TsCell(2 * TicksPerDay)]>>
           ELSE <<[order_id |-> "o2", customer_id |-> "c2",
                   order_purchase_timestamp |-> TsCell(2 * TicksPerDay),
                   order_delivered_customer_date |-> BlankCell,
                   order_estimated_delivery_date |-> TsCell(3 * TicksPerDay)]>>
      [] t = "order_items" ->
           IF b = 1
           THEN <<[order_id |-> "o1", order_item_id |-> 1, product_id |-> "p1", seller_id |-> "s1"]>>
           ELSE <<[order_id |-> "o1", order_item_id |-> 2, product_id |-> "p2", seller_id |-> "s1"],
                  [order_id |-> "o2", order_item_id |-> 1, product_id |-> "p2", seller_id |-> "s1"],
                  [order_id |-> "o2", order_item_id |-> 2, product_id |-> "p3", seller_id |-> "s1"]>>
      [] t = "order_payments" ->
           IF b = 1 THEN <<[order_id |-> "o1", payment_installments |-> 2]>>
                    ELSE <<[order_id |-> "o2", payment_installments |-> 1]>>
      [] t = "order_reviews" ->
           IF b = 1 THEN <<[order_id |-> "o1"]>> ELSE <<>>

-----------------------------------------------------------------------------
(* extract_data *)

ParseRow(t, r) ==
    IF t = "orders"
    THEN [r EXCEPT !.order_purchase_timestamp = ToDatetime(@),
                   !.order_delivered_customer_date = ToDatetime(@),
                   !.order_estimated_delivery_date = ToDatetime(@)]
    ELSE r

ReadCsv(t, rows) == [i \in 1..Len(rows) |-> ParseRow(t, rows[i])]

ExtractedDatasets_AllTables(fs) ==
    [t \in FileTables |-> IF t \in DOMAIN fs THEN ReadCsv(t, fs[t]) ELSE <<>>]

(* A table gets a key in datasets exactly when its file exists.            *)
ExtractedDatasets(fs) == [t \in DOMAIN fs |-> ReadCsv(t, fs[t])]

-----------------------------------------------------------------------------
(* transform_data *)

StateToRegion ==
    [s \in {"SP", "RJ", "MG", "ES"} |-> "Southeast"] @@
    [s \in {"RS", "SC", "PR"} |-> "South"] @@
    [s \in {"BA", "PE", "CE", "MA", "PI", "RN", "PB", "AL", "SE"} |-> "Northeast"] @@
    [s \in {"GO", "MT", "MS", "DF"} |-> "Central-West"] @@
    [s \in {"AM", "PA", "AC", "RO", "RR", "AP"} |-> "North"]

(* Series.map(dict): a state that is not a key of the dict maps to NaN.    *)
MapRegion(state) == IF state \in DOMAIN StateToRegion THEN Some(StateToRegion[state]) ELSE None

(* np.random.choice(['Bronze', 'Silver', 'Gold', 'Platinum'], size=len):   *)
(* one draw for every row; the outcomes followed are the two in which      *)
(* every row draws the same end of the list.                               *)
TierDraws(n) == {[i \in 1..n |-> tier] : tier \in {"Bronze", "Platinum"}}

TransformCustomers(df, tiers) ==
    [i \in 1..Len(df) |->
        [customer_id |-> df[i].customer_id,
         customer_state |-> df[i].customer_state,
         customer_tier |-> tiers[i],
         customer_region |-> MapRegion(df[i].customer_state)]]

(* (delivered - estimated).dt.days: NaT when either side is NaT.           *)
DeliveryDelayDays(delivered, estimated) ==
    IF IsNull(delivered) \/ IsNull(estimated)
    THEN None
    ELSE Some(Days(Val(delivered) - Val(estimated)))

IsDeliveredOntime_Strict(delay) == IF ~IsNull(delay) /\ Val(delay) < 0 THEN 1 ELSE 0

(* (delay <= 0).astype(int) and (delay < 0).astype(int): a comparison with *)
(* NaN is False.                                                           *)
IsDeliveredOntime(delay) == IF ~IsNull(delay) /\ Val(delay) <= 0 THEN 1 ELSE 0
IsFastDelivery(delay) == IF ~IsNull(delay) /\ Val(delay) < 0 THEN 1 ELSE 0

RECURSIVE SumInstallments(_)
SumInstallments(rows) ==
    IF rows = <<>> THEN 0
    ELSE Head(rows).payment_installments + SumInstallments(Tail(rows))

(* groupby('order_id')['payment_installments'].sum() left-joined on        *)
(* order_id; 1 for every row when there is no payments table.              *)
PaymentInstallments(ds, oid) ==
    IF "order_payments" \in DOMAIN ds
    THEN LET pays == SelectSeq(ds["order_payments"], LAMBDA p : p.order_id = oid)
         IN  IF pays = <<>> THEN None ELSE Some(SumInstallments(pays))
    ELSE Some(1)

MergedRow(ds, o, it) ==
    LET delay == DeliveryDelayDays(o.order_delivered_customer_date,
                                   o.order_estimated_delivery_date)
    IN  [order_id |-> o.order_id,
         customer_id |-> o.customer_id,
         order_purchase_timestamp |-> o.order_purchase_timestamp,
         order_delivered_customer_date |-> o.order_delivered_customer_date,
         order_estimated_delivery_date |-> o.order_estimated_delivery_date,
         order_item_id |-> it.order_item_id,
         product_id |-> it.product_id,
         seller_id |-> it.seller_id,
         delivery_delay_days |-> delay,
         is_delivered_ontime |-> IsDeliveredOntime(delay),
         is_fast_delivery |-> IsFastDelivery(delay),
         payment_installments |-> PaymentInstallments(ds, o.order_id)]

(* orders_df.merge(order_items_df, on='order_id', how='inner')             *)
OrdersMerged(ds) ==
    LET orders == ds["orders"]
        items == ds["order_items"]
        ItemsOf(o) == SelectSeq(items, LAMBDA it : it.order_id = o.order_id)
    IN  Concat([i \in 1..Len(orders) |->
                  [j \in 1..Len(ItemsOf(orders[i])) |->
                      MergedRow(ds, orders[i], ItemsOf(orders[i])[j])]])

HasOrderTables(ds) == "orders" \in DOMAIN ds /\ "order_items" \in DOMAIN ds

TransformedDatasets(ds, tiers) ==
    LET keys == DOMAIN ds \cup (IF HasOrderTables(ds) THEN {"orders_merged"} ELSE {})
    IN  [t \in keys |->
            CASE t = "customers" -> TransformCustomers(ds[t], tiers)
              [] t = "orders_merged" -> OrdersMerged(ds)
              [] OTHER -> ds[t]]

-----------------------------------------------------------------------------
(* load_data: dimension tables *)

CustomerIds(table) == {table[i].customer_id : i \in 1..Len(table)}
ProductIds(table) == {table[i].product_id : i \in 1..Len(table)}
SellerIds(table) == {table[i].seller_id : i \in 1..Len(table)}
OrderIds(table) == {table[i].order_id : i \in 1..Len(table)}

NewCustomers_Inverted(df, existing) == SelectSeq(df, LAMBDA r : r.customer_id \in existing)

(* df[~df[key].isin(existing[key])]                                        *)
NewCustomers(df, existing) == SelectSeq(df, LAMBDA r : r.customer_id \notin existing)
NewProducts(df, existing) == SelectSeq(df, LAMBDA r : r.product_id \notin existing)
NewSellers(df, existing) == SelectSeq(df, LAMBDA r : r.seller_id \notin existing)

(* to_sql(..., if_exists='append', index=False): the rows go to the end of *)
(* the table and the warehouse numbers them with the next surrogate keys.  *)
ToSqlAppend_Replace(table, rows) == rows

ToSqlAppend(table, rows) == table \o rows

StoredCustomers(table, new) ==
    [i \in 1..Len(new) |->
        [customer_key |-> Len(table) + i,
         customer_id |-> new[i].customer_id,
         customer_state |-> new[i].customer_state,
         customer_tier |-> new[i].customer_tier,
         customer_region |-> new[i].customer_region]]

StoredProducts(table, new) ==
    [i \in 1..Len(new) |-> [product_key |-> Len(table) + i, product_id |-> new[i].product_id]]

StoredSellers(table, new) ==
    [i \in 1..Len(new) |-> [seller_key |-> Len(table) + i, seller_id |-> new[i].seller_id]]

-----------------------------------------------------------------------------
(* load_data: fact table *)

MergeDimensions_Cross(sales_df, customers, products, sellers) ==
    LET RowsFor(r) ==
            LET cs == SelectSeq(customers, LAMBDA c : c.customer_id = r.customer_id)
                ss == SelectSeq(sellers, LAMBDA q : q.seller_id = r.seller_id)
            IN  Concat([i \in 1..Len(cs) |->
                  Concat([j \in 1..Len(products) |->
                    [k \in 1..Len(ss) |->
                        [row |-> r,
                         customer_key |-> cs[i].customer_key,
                         product_key |-> products[j].product_key,
                         seller_key |-> ss[k].seller_key]]])])
    IN  Concat([n \in 1..Len(sales_df) |-> RowsFor(sales_df[n])])

(* The three inner merges on customer_id, product_id and seller_id: one    *)
(* output row for every combination of matching dimension rows.            *)
MergeDimensions(sales_df, customers, products, sellers) ==
    LET RowsFor(r) ==
            LET cs == SelectSeq(customers, LAMBDA c : c.customer_id = r.customer_id)
                ps == SelectSeq(products, LAMBDA q : q.product_id = r.product_id)
                ss == SelectSeq(sellers, LAMBDA q : q.seller_id = r.seller_id)
            IN  Concat([i \in 1..Len(cs) |->
                  Concat([j \in 1..Len(ps) |->
                    [k \in 1..Len(ss) |->
                        [row |-> r,
                         customer_key |-> cs[i].customer_key,
                         product_key |-> ps[j].product_key,
                         seller_key |-> ss[k].seller_key]]])])
    IN  Concat([n \in 1..Len(sales_df) |-> RowsFor(sales_df[n])])

(* A left merge against dim_date on a date: the date_key of every row of   *)
(* dates with that full_date, NaN when there is none (or the date is NaT). *)
DateKeys(dates, date) ==
    LET hit == SelectSeq(dates, LAMBDA d : ~IsNull(date) /\ d.full_date = Val(date))
    IN  IF hit = <<>> THEN <<None>> ELSE [i \in 1..Len(hit) |-> Some(hit[i].date_key)]

FillDeliveryKey_NoFill(delivery_key, order_key) == delivery_key

(* fillna(order_date_key) on delivery_date_key                             *)
FillDeliveryKey(delivery_key, order_key) ==
    IF IsNull(delivery_key) THEN order_key ELSE delivery_key

FactRow(m, order_key, delivery_key) ==
    [order_id |-> m.row.order_id,
     order_item_id |-> m.row.order_item_id,
     customer_key |-> m.customer_key,
     product_key |-> m.product_key,
     seller_key |-> m.seller_key,
     order_date_key |-> order_key,
     delivery_date_key |-> delivery_key,
     payment_installments |-> m.row.payment_installments,
     order_purchase_timestamp |-> m.row.order_purchase_timestamp,
     order_delivered_customer_date |-> m.row.order_delivered_customer_date,
     order_estimated_delivery_date |-> m.row.order_estimated_delivery_date,
     delivery_delay_days |-> m.row.delivery_delay_days,
     is_delivered_ontime |-> m.row.is_delivered_ontime,
     is_fast_delivery |-> m.row.is_fast_delivery]

(* fact_sales_df: the merged rows with order_date_key and, from the second *)
(* merge against the dates of the deliveries, delivery_date_key.           *)
FactSalesDf(sales_df, customers, products, sellers, dates) ==
    LET merged == MergeDimensions(sales_df, customers, products, sellers)
        RowsFor(m) ==
            LET oks == DateKeys(dates, DateOf(m.row.order_purchase_timestamp))
                dks == DateKeys(dates, DateOf(m.row.order_delivered_customer_date))
            IN  Concat([i \in 1..Len(oks) |->
                    [j \in 1..Len(dks) |-> FactRow(m, oks[i], dks[j])]])
    IN  Concat([n \in 1..Len(merged) |-> RowsFor(merged[n])])

NewSales_NoDiff(fact_sales_df, existing) ==
    [i \in 1..Len(fact_sales_df) |->
        [fact_sales_df[i] EXCEPT !.delivery_date_key = FillDeliveryKey(@, fact_sales_df[i].order_date_key)]]

(* fact_sales_df[~fact_sales_df['order_id'].isin(existing_sales['order_id'])], *)
(* then the fillna of delivery_date_key.                                   *)
NewSales(fact_sales_df, existing) ==
    LET new == SelectSeq(fact_sales_df, LAMBDA r : r.order_id \notin existing)
    IN  [i \in 1..Len(new) |->
            [new[i] EXCEPT !.delivery_date_key = FillDeliveryKey(@, new[i].order_date_key)]]

-----------------------------------------------------------------------------
(* run_data_quality_checks *)

NullId == ""

CountQueries(customers, products, sales) ==
    [record_counts |-> [customers |-> Len(customers), products |-> Len(products),
                        orders |-> Len(sales)],
     null_checks |->
        [null_ids |-> Cardinality({i \in 1..Len(customers) : customers[i].customer_id = NullId}),
         null_dates |-> Cardinality({i \in 1..Len(sales) :
                                        IsNull(sales[i].order_purchase_timestamp)})]]

Min(a, b) == IF a < b THEN a ELSE b
Max(a, b) == IF a > b THEN a ELSE b

DataQualityScore_NoFloor(nulls) == Min(100, 100 - (nulls.null_ids + nulls.null_dates) * 10)

(* min(100, max(0, 100 - sum(null_checks.values()) * 10))                  *)
DataQualityScore(nulls) == Min(100, Max(0, 100 - (nulls.null_ids + nulls.null_dates) * 10))

QualityReport(q) ==
    [record_counts |-> q.record_counts,
     null_checks |-> q.null_checks,
     data_quality_score |-> DataQualityScore(q.null_checks)]

-----------------------------------------------------------------------------
(* State *)

Tables ==
    [dim_customer |-> dim_customer, dim_product |-> dim_product, dim_seller |-> dim_seller,
     dim_date |-> dim_date, fact_sales |-> fact_sales]

NoAppends ==
    [dim_customer |-> <<>>, dim_product |-> <<>>, dim_seller |-> <<>>, fact_sales |-> <<>>]

NoDatasets == [t \in {} |-> <<>>]

RECURSIVE DateRows(_)
DateRows(days) ==
    IF days = {} THEN <<>>
    ELSE LET d == CHOOSE x \in days : \A y \in days : x <= y
         IN  <<[date_key |-> 100 + d, full_date |-> d]>> \o DateRows(days \ {d})

(* dim_date is filled outside the loader: every day of the calendar, or    *)
(* the calendar with one day missing.                                      *)
DateDimensions ==
    {DateRows((1..MaxDay) \ gap) : gap \in {{}} \cup {{d} : d \in 1..MaxDay}}

(* No generator call has been made.                                        *)
GeneratorIdle ==
    /\ vietnamese_name = <<>>
    /\ ascii_name = <<>>
    /\ is_male = FALSE
    /\ customers_data = <<>>

(* The analysis script has not started.                                    *)
AnalysisIdle ==
    /\ conn = "none"
    /\ data = NoDatasets
    /\ ml_customer_segments = <<>>
    /\ uncommitted = None
    /\ inserted = 0
    /\ ml_pc = "idle"
    /\ steps = <<>>
    /\ returned = "none"

Init ==
    /\ GeneratorIdle
    /\ AnalysisIdle
    /\ files \in {[t \in present |-> BatchRows(t, 1, dlv)] :
                     present \in SUBSET FileTables, dlv \in DeliveredCells}
    /\ batch = 1
    /\ datasets = NoDatasets
    /\ dim_customer = <<>>
    /\ dim_product = <<>>
    /\ dim_seller = <<>>
    /\ dim_date \in DateDimensions
    /\ fact_sales = <<>>
    /\ pc = "idle"
    /\ stages = <<>>
    /\ raisedIn = "none"
    /\ loggedBy = {}
    /\ result = "none"
    /\ queried = CountQueries(<<>>, <<>>, <<>>)
    /\ quality_report = None
    /\ report_written = FALSE
    /\ runStart = Tables
    /\ runAppends = NoAppends
    /\ lastLoad = [done |-> FALSE, batch |-> 0]
    /\ rerun = FALSE

warehouse == <<dim_customer, dim_product, dim_seller, dim_date, fact_sales>>
history == <<raisedIn, loggedBy, result, queried, quality_report, report_written>>
loads == <<lastLoad, rerun>>

-----------------------------------------------------------------------------
(* The operator between runs *)

(* The data files are regenerated with a second batch of rows.             *)
GenerateBatch ==
    /\ pc \in {"idle", "returned"}
    /\ batch = 1
    /\ batch' = 2
    /\ files' = [t \in DOMAIN files |-> files[t] \o BatchRows(t, 2, BlankCell)]
    /\ UNCHANGED <<generator, analysis, datasets, warehouse, pc, stages, history, runStart, runAppends, loads>>

(* main(): etl_manager.run_etl_pipeline()                                  *)
StartRun ==
    /\ pc \in {"idle", "returned"}
    /\ pc' = "extract"
    /\ datasets' = NoDatasets
    /\ stages' = <<>>
    /\ raisedIn' = "none"
    /\ loggedBy' = {}
    /\ result' = "none"
    /\ queried' = CountQueries(<<>>, <<>>, <<>>)
    /\ quality_report' = None
    /\ report_written' = FALSE
    /\ runStart' = Tables
    /\ runAppends' = NoAppends
    /\ rerun' = FALSE
    /\ UNCHANGED <<generator, analysis, files, batch, warehouse, lastLoad>>

-----------------------------------------------------------------------------
(* run_etl_pipeline, step 1 and step 2 *)

ExtractData ==
    /\ pc = "extract"
    /\ stages' = Append(stages, "extract")
    /\ datasets' = ExtractedDatasets(files)
    /\ pc' = "transform"
    /\ UNCHANGED <<generator, analysis, files, batch, warehouse, history, runStart, runAppends, loads>>

(* pd.read_csv raises on a file it cannot read or parse.                   *)
ExtractRaise ==
    /\ pc = "extract"
    /\ DOMAIN files # {}
    /\ stages' = Append(stages, "extract")
    /\ raisedIn' = "extract"
    /\ pc' = "except_pipeline"
    /\ UNCHANGED <<generator, analysis, files, batch, datasets, warehouse, loggedBy, result, queried,
                   quality_report, report_written, runStart, runAppends, loads>>

TransformData ==
    /\ pc = "transform"
    /\ stages' = Append(stages, "transform")
    /\ \E tiers \in TierDraws(IF "customers" \in DOMAIN datasets
                             THEN Len(datasets["customers"]) ELSE 0) :
          datasets' = TransformedDatasets(datasets, tiers)
    /\ pc' = "load"
    /\ UNCHANGED <<generator, analysis, files, batch, warehouse, history, runStart, runAppends, loads>>

(* A column lookup or a merge of transform_data raises (no try/except in   *)
(* transform_data); only a table that is transformed can raise.            *)
TransformRaise ==
    /\ pc = "transform"
    /\ \/ DOMAIN datasets \cap {"customers", "products", "sellers"} # {}
       \/ HasOrderTables(datasets)
    /\ stages' = Append(stages, "transform")
    /\ raisedIn' = "transform"
    /\ pc' = "except_pipeline"
    /\ UNCHANGED <<generator, analysis, files, batch, datasets, warehouse, loggedBy, result, queried,
                   quality_report, report_written, runStart, runAppends, loads>>

-----------------------------------------------------------------------------
(* run_etl_pipeline, step 3: load_data *)

(* with self.engine.connect() as conn                                      *)
LoadConnect ==
    /\ pc = "load"
    /\ stages' = Append(stages, "load")
    /\ rerun' = (lastLoad.done /\ lastLoad.batch = batch)
    /\ pc' = "load_customers"
    /\ UNCHANGED <<generator, analysis, files, batch, datasets, warehouse, history, runStart, runAppends, lastLoad>>

LoadConnectRaise ==
    /\ pc = "load"
    /\ stages' = Append(stages, "load")
    /\ raisedIn' = "load"
    /\ pc' = "except_load"
    /\ UNCHANGED <<generator, analysis, files, batch, datasets, warehouse, loggedBy, result, queried,
                   quality_report, report_written, runStart, runAppends, loads>>

LoadCustomers ==
    /\ pc = "load_customers"
    /\ IF "customers" \in DOMAIN datasets
       THEN LET new == NewCustomers(datasets["customers"], CustomerIds(dim_customer))
                stored == StoredCustomers(dim_customer, new)
            IN  /\ dim_customer' = ToSqlAppend(dim_customer, stored)
                /\ runAppends' = [runAppends EXCEPT !.dim_customer = @ \o stored]
       ELSE UNCHANGED <<dim_customer, runAppends>>
    /\ pc' = "load_products"
    /\ UNCHANGED <<generator, analysis, files, batch, datasets, dim_product, dim_seller, dim_date, fact_sales,
                   stages, history, runStart, loads>>

LoadProducts ==
    /\ pc = "load_products"
    /\ IF "products" \in DOMAIN datasets
       THEN LET new == NewProducts(datasets["products"], ProductIds(dim_product))
                stored == StoredProducts(dim_product, new)
            IN  /\ dim_product' = ToSqlAppend(dim_product, stored)
                /\ runAppends' = [runAppends EXCEPT !.dim_product = @ \o stored]
       ELSE UNCHANGED <<dim_product, runAppends>>
    /\ pc' = "load_sellers"
    /\ UNCHANGED <<generator, analysis, files, batch, datasets, dim_customer, dim_seller, dim_date, fact_sales,
                   stages, history, runStart, loads>>

LoadSellers ==
    /\ pc = "load_sellers"
    /\ IF "sellers" \in DOMAIN datasets
       THEN LET new == NewSellers(datasets["sellers"], SellerIds(dim_seller))
                stored == StoredSellers(dim_seller, new)
            IN  /\ dim_seller' = ToSqlAppend(dim_seller, stored)
                /\ runAppends' = [runAppends EXCEPT !.dim_seller = @ \o stored]
       ELSE UNCHANGED <<dim_seller, runAppends>>
    /\ pc' = "load_fact"
    /\ UNCHANGED <<generator, analysis, files, batch, datasets, dim_customer, dim_product, dim_date, fact_sales,
                   stages, history, runStart, loads>>

(* The fact load is the last step of load_data: after it load_data returns. *)
LoadFact ==
    /\ pc = "load_fact"
    /\ IF "orders_merged" \in DOMAIN datasets
       THEN LET fact_sales_df == FactSalesDf(datasets["orders_merged"], dim_customer,
                                             dim_product, dim_seller, dim_date)
                new_sales == NewSales(fact_sales_df, OrderIds(fact_sales))
            IN  /\ fact_sales' = ToSqlAppend(fact_sales, new_sales)
                /\ runAppends' = [runAppends EXCEPT !.fact_sales = @ \o new_sales]
       ELSE UNCHANGED <<fact_sales, runAppends>>
    /\ lastLoad' = [done |-> TRUE, batch |-> batch]
    /\ pc' = "quality"
    /\ UNCHANGED <<generator, analysis, files, batch, datasets, dim_customer, dim_product, dim_seller, dim_date,
                   stages, history, runStart, rerun>>

(* The dataset a step of load_data reads and appends for.                  *)
StepDataset(step) ==
    CASE step = "load_customers" -> "customers"
      [] step = "load_products" -> "products"
      [] step = "load_sellers" -> "sellers"
      [] step = "load_fact" -> "orders_merged"

LoadSteps == {"load_customers", "load_products", "load_sellers", "load_fact"}

(* A pd.read_sql or a to_sql of the current step raises: the step appends  *)
(* nothing.  A step whose dataset is absent runs no statement.             *)
LoadRaise ==
    /\ pc \in LoadSteps
    /\ StepDataset(pc) \in DOMAIN datasets
    /\ raisedIn' = "load"
    /\ pc' = "except_load"
    /\ UNCHANGED <<generator, analysis, files, batch, datasets, warehouse, stages, loggedBy, result, queried,
                   quality_report, report_written, runStart, runAppends, loads>>

LoadExcept_Rollback ==
    /\ pc = "except_load"
    /\ loggedBy' = loggedBy \cup {"load_data"}
    /\ lastLoad' = [done |-> FALSE, batch |-> batch]
    /\ pc' = "except_pipeline"
    /\ dim_customer' = runStart.dim_customer
    /\ dim_product' = runStart.dim_product
    /\ dim_seller' = runStart.dim_seller
    /\ fact_sales' = runStart.fact_sales
    /\ UNCHANGED <<generator, analysis, files, batch, datasets, dim_date, stages, raisedIn, result, queried,
                   quality_report, report_written, runStart, runAppends, rerun>>

LoadExcept_Swallow ==
    /\ pc = "except_load"
    /\ loggedBy' = loggedBy \cup {"load_data"}
    /\ lastLoad' = [done |-> FALSE, batch |-> batch]
    /\ pc' = "quality"
    /\ UNCHANGED <<generator, analysis, files, batch, datasets, warehouse, stages, raisedIn, result, queried,
                   quality_report, report_written, runStart, runAppends, rerun>>

(* except Exception as e: logger.error(...); raise                         *)
LoadExcept ==
    /\ pc = "except_load"
    /\ loggedBy' = loggedBy \cup {"load_data"}
    /\ lastLoad' = [done |-> FALSE, batch |-> batch]
    /\ pc' = "except_pipeline"
    /\ UNCHANGED <<generator, analysis, files, batch, datasets, warehouse, stages, raisedIn, result, queried,
                   quality_report, report_written, runStart, runAppends, rerun>>

-----------------------------------------------------------------------------
(* run_etl_pipeline, step 4: run_data_quality_checks *)

QualityQuery ==
    /\ pc = "quality"
    /\ stages' = Append(stages, "quality")
    /\ queried' = CountQueries(dim_customer, dim_product, fact_sales)
    /\ pc' = "quality_report"
    /\ UNCHANGED <<generator, analysis, files, batch, datasets, warehouse, raisedIn, loggedBy, result,
                   quality_report, report_written, runStart, runAppends, loads>>

(* The connection or one of the five count queries raises.                 *)
QualityQueryRaise ==
    /\ pc = "quality"
    /\ stages' = Append(stages, "quality")
    /\ raisedIn' = "quality"
    /\ pc' = "except_quality"
    /\ UNCHANGED <<generator, analysis, files, batch, datasets, warehouse, loggedBy, result, queried,
                   quality_report, report_written, runStart, runAppends, loads>>

(* The report is built and dumped to data_quality_report.json; the checks  *)
(* return it and run_etl_pipeline returns status 'success'.                *)
WriteReport ==
    /\ pc = "quality_report"
    /\ quality_report' = Some(QualityReport(queried))
    /\ report_written' = TRUE
    /\ result' = "success"
    /\ pc' = "returned"
    /\ UNCHANGED <<generator, analysis, files, batch, datasets, warehouse, stages, raisedIn, loggedBy, queried,
                   runStart, runAppends, loads>>

(* open() or json.dump raises; the file may already be created.            *)
WriteReportRaise ==
    /\ pc = "quality_report"
    /\ quality_report' = Some(QualityReport(queried))
    /\ report_written' \in BOOLEAN
    /\ raisedIn' = "quality"
    /\ pc' = "except_quality"
    /\ UNCHANGED <<generator, analysis, files, batch, datasets, warehouse, stages, loggedBy, result, queried,
                   runStart, runAppends, loads>>

(* except Exception as e: logger.error(...); raise                         *)
QualityExcept ==
    /\ pc = "except_quality"
    /\ loggedBy' = loggedBy \cup {"run_data_quality_checks"}
    /\ pc' = "except_pipeline"
    /\ UNCHANGED <<generator, analysis, files, batch, datasets, warehouse, stages, raisedIn, result, queried,
                   quality_report, report_written, runStart, runAppends, loads>>

-----------------------------------------------------------------------------
(* run_etl_pipeline: except Exception as e *)

PipelineOutcome_Reraise(stage) == IF stage = "transform" THEN "raised" ELSE "failed"

(* What the caller of run_etl_pipeline gets when a stage raised.           *)
PipelineOutcome(stage) == "failed"

PipelineExcept_Retry ==
    /\ pc = "except_pipeline"
    /\ loggedBy' = loggedBy \cup {"run_etl_pipeline"}
    /\ result' = "none"
    /\ pc' = "extract"
    /\ UNCHANGED <<generator, analysis, files, batch, datasets, warehouse, stages, raisedIn, queried,
                   quality_report, report_written, runStart, runAppends, loads>>

PipelineExcept ==
    /\ pc = "except_pipeline"
    /\ loggedBy' = loggedBy \cup {"run_etl_pipeline"}
    /\ result' = PipelineOutcome(raisedIn)
    /\ pc' = "returned"
    /\ UNCHANGED <<generator, analysis, files, batch, datasets, warehouse, stages, raisedIn, queried,
                   quality_report, report_written, runStart, runAppends, loads>>

-----------------------------------------------------------------------------

Next ==
    \/ GenerateBatch
    \/ StartRun
    \/ ExtractData
    \/ ExtractRaise
    \/ TransformData
    \/ TransformRaise
    \/ LoadConnect
    \/ LoadConnectRaise
    \/ LoadCustomers
    \/ LoadProducts
    \/ LoadSellers
    \/ LoadFact
    \/ LoadRaise
    \/ LoadExcept
    \/ QualityQuery
    \/ QualityQueryRaise
    \/ WriteReport
    \/ WriteReportRaise
    \/ QualityExcept
    \/ PipelineExcept

Spec == Init /\ [][Next]_vars

-----------------------------------------------------------------------------
(* The loader over files that repeat an identifier *)

(* A dimension file whose first row is written a second time.              *)
WithRepeat(t, rows) ==
    IF t \in {"customers", "products", "sellers"} /\ rows # <<>>
    THEN Append(rows, rows[1])
    ELSE rows

InitRepeats ==
    /\ GeneratorIdle
    /\ AnalysisIdle
    /\ files \in {[t \in FileTables |-> WithRepeat(t, BatchRows(t, 1, dlv))] :
                     dlv \in DeliveredCells}
    /\ batch = 1
    /\ datasets = NoDatasets
    /\ dim_customer = <<>>
    /\ dim_product = <<>>
    /\ dim_seller = <<>>
    /\ dim_date \in DateDimensions
    /\ fact_sales = <<>>
    /\ pc = "idle"
    /\ stages = <<>>
    /\ raisedIn = "none"
    /\ loggedBy = {}
    /\ result = "none"
    /\ queried = CountQueries(<<>>, <<>>, <<>>)
    /\ quality_report = None
    /\ report_written = FALSE
    /\ runStart = Tables
    /\ runAppends = NoAppends
    /\ lastLoad = [done |-> FALSE, batch |-> 0]
    /\ rerun = FALSE

SpecRepeats == InitRepeats /\ [][Next]_vars

-----------------------------------------------------------------------------
(* The quality checks over a warehouse that holds rows with NULLs: the run *)
(* is about to call run_data_quality_checks, dim_customer holds n1 rows    *)
(* with a NULL customer_id and fact_sales n2 rows with a NULL purchase     *)
(* timestamp, next to one sound row each.                                  *)

NullCustomers(n) ==
    [i \in 1..n |-> [customer_key |-> i, customer_id |-> NullId,
                     customer_state |-> "SP", customer_tier |-> "Bronze",
                     customer_region |-> Some("Southeast")]]
    \o <<[customer_key |-> n + 1, customer_id |-> "c1",
          customer_state |-> "SP", customer_tier |-> "Bronze",
                     customer_region |-> Some("Southeast")]>>

SalesRow(item, ts) ==
    [order_id |-> "o1", order_item_id |-> item, customer_key |-> 1, product_key |-> 1,
     seller_key |-> 1, order_date_key |-> None, delivery_date_key |-> None,
     payment_installments |-> Some(1), order_purchase_timestamp |-> ts,
     order_delivered_customer_date |-> None,
     order_estimated_delivery_date |-> Some(2 * TicksPerDay),
     delivery_delay_days |-> None, is_delivered_ontime |-> 0, is_fast_delivery |-> 0]

NullSales(n) ==
    [i \in 1..n |-> SalesRow(i, None)] \o <<SalesRow(n + 1, Some(TicksPerDay))>>

InitScore ==
    /\ GeneratorIdle
    /\ AnalysisIdle
    /\ files = NoDatasets
    /\ batch = 1
    /\ datasets = NoDatasets
    /\ \E n1 \in 0..MaxNulls : dim_customer = NullCustomers(n1)
    /\ dim_product = <<[product_key |-> 1, product_id |-> "p1"]>>
    /\ dim_seller = <<[seller_key |-> 1, seller_id |-> "s1"]>>
    /\ dim_date = DateRows(1..MaxDay)
    /\ \E n2 \in 0..MaxNulls : fact_sales = NullSales(n2)
    /\ pc = "quality"
    /\ stages = <<"extract", "transform", "load">>
    /\ raisedIn = "none"
    /\ loggedBy = {}
    /\ result = "none"
    /\ queried = CountQueries(<<>>, <<>>, <<>>)
    /\ quality_report = None
    /\ report_written = FALSE
    /\ runStart = Tables
    /\ runAppends = NoAppends
    /\ lastLoad = [done |-> FALSE, batch |-> 0]
    /\ rerun = FALSE

NextScore ==
    \/ QualityQuery
    \/ WriteReport

SpecScore == InitScore /\ [][NextScore]_vars

-----------------------------------------------------------------------------
(* The data generator: generate_vietnamese_name *)

(* Vietnamese family names (common surnames) *)
vietnamese_family_names ==
    <<<<78, 103, 117, 121, 7877, 110>>, <<84, 114, 7847, 110>>, <<76, 234>>,
      <<80, 104, 7841, 109>>, <<72, 111, 224, 110, 103>>, <<86, 361>>,
      <<272, 7895>>, <<66, 249, 105>>, <<272, 105, 110, 104>>,
      <<78, 103, 244>>, <<68, 432, 417, 110, 103>>, <<86, 245>>,
      <<80, 104, 97, 110>>, <<84, 114, 432, 417, 110, 103>>, <<76, 253>>,
      <<67, 97, 111>>, <<84, 114, 7883, 110, 104>>, <<77, 97, 105>>,
      <<76, 226, 109>>, <<84, 244, 110>>, <<72, 224>>,
      <<81, 117, 225, 99, 104>>, <<84, 104, 244, 105>>,
      <<75, 105, 7873, 117>>, <<272, 224, 110, 103>>, <<76, 432, 117>>,
      <<84, 114, 105, 7879, 117>>, <<84, 244>>, <<272, 7863, 110, 103>>,
      <<272, 111, 224, 110>>, <<72, 7891>>, <<7912, 110, 103>>, <<86, 105>>,
      <<75, 105, 109>>, <<79, 110, 103>>, <<84, 104, 225, 105>>,
      <<89, 7871, 110>>, <<67, 104, 117>>>>

(* Vietnamese middle names, male *)
vietnamese_middle_names_male ==
    <<<<86, 259, 110>>, <<72, 7919, 117>>, <<81, 117, 7889, 99>>,
      <<77, 105, 110, 104>>, <<272, 236, 110, 104>>,
      <<84, 104, 97, 110, 104>>, <<72, 111, 224, 110, 103>>, <<71, 105, 97>>,
      <<84, 104, 7871>>, <<84, 114, 117, 110, 103>>, <<88, 117, 226, 110>>,
      <<72, 7843, 105>>, <<78, 97, 109>>, <<65, 110, 104>>,
      <<84, 249, 110, 103>>, <<67, 432, 7901, 110, 103>>, <<68, 117, 121>>,
      <<72, 249, 110, 103>>, <<81, 117, 226, 110>>,
      <<80, 104, 111, 110, 103>>, <<83, 417, 110>>, <<72, 224, 111>>,
      <<75, 105, 7879, 116>>, <<77, 7841, 110, 104>>, <<80, 104, 250, 99>>,
      <<76, 7897, 99>>, <<84, 104, 224, 110, 104>>,
      <<84, 104, 105, 234, 110>>, <<78, 104, 7853, 116>>,
      <<76, 111, 110, 103>>>>

(* Vietnamese middle names, female *)
vietnamese_middle_names_female ==
    <<<<84, 104, 7883>>, <<78, 103, 7885, 99>>, <<84, 104, 97, 110, 104>>,
      <<84, 104, 250, 121>>, <<72, 111, 224, 105>>,
      <<81, 117, 7923, 110, 104>>, <<76, 97, 110>>,
      <<72, 432, 417, 110, 103>>, <<76, 105, 110, 104>>, <<84, 104, 117>>,
      <<79, 97, 110, 104>>, <<89, 7871, 110>>, <<65, 110, 104>>,
      <<84, 117, 121, 7871, 116>>, <<68, 105, 7877, 109>>, <<77, 121>>,
      <<76, 7879>>, <<75, 105, 109>>, <<88, 117, 226, 110>>, <<72, 224>>,
      <<71, 105, 97, 110, 103>>, <<78, 103, 226, 110>>, <<86, 121>>,
      <<84, 114, 97, 110, 103>>, <<80, 104, 432, 417, 110, 103>>,
      <<81, 117, 121, 234, 110>>, <<84, 104, 7843, 111>>,
      <<68, 117, 121, 234, 110>>, <<67, 104, 105>>>>

(* Vietnamese given names, male *)
vietnamese_first_names_male ==
    <<<<65, 110>>, <<66, 7843, 111>>, <<66, 236, 110, 104>>,
      <<67, 104, 105, 7871, 110>>, <<67, 104, 432, 417, 110, 103>>,
      <<68, 361, 110, 103>>, <<272, 7841, 105>>, <<272, 7841, 116>>,
      <<272, 7913, 99>>, <<71, 105, 224, 117>>, <<72, 224, 111>>,
      <<72, 105, 7871, 117>>, <<72, 111, 224, 105>>, <<72, 249, 110, 103>>,
      <<72, 117, 121>>, <<75, 104, 97, 110, 103>>,
      <<75, 104, 105, 234, 109>>, <<75, 105, 234, 110>>,
      <<75, 104, 111, 97>>, <<75, 104, 244, 105>>, <<76, 105, 110, 104>>,
      <<76, 111, 110, 103>>, <<76, 117, 226, 110>>, <<77, 7841, 110, 104>>,
      <<78, 97, 109>>, <<78, 103, 104, 297, 97>>, <<78, 104, 226, 110>>,
      <<80, 104, 105>>, <<80, 104, 111, 110, 103>>, <<80, 104, 250, 99>>,
      <<81, 117, 7889, 99>>, <<81, 117, 226, 110>>,
      <<81, 117, 121, 7871, 116>>, <<83, 225, 110, 103>>, <<83, 417, 110>>,
      <<83, 116, 114, 111, 110, 103>>, <<84, 224, 105>>, <<84, 226, 109>>,
      <<84, 7845, 110>>, <<84, 104, 225, 105>>, <<84, 104, 224, 110, 104>>,
      <<84, 104, 105, 234, 110>>, <<84, 104, 105, 7879, 110>>,
      <<84, 104, 7855, 110, 103>>, <<84, 104, 7883, 110, 104>>,
      <<84, 105, 7871, 110>>, <<84, 111, 224, 110>>, <<84, 114, 237>>,
      <<84, 114, 117, 110, 103>>, <<84, 114, 432, 7901, 110, 103>>,
      <<84, 250>>, <<84, 117, 7845, 110>>, <<84, 249, 110, 103>>,
      <<86, 105, 110, 104>>, <<86, 361>>, <<88, 117, 226, 110>>,
      <<89, 7871, 110>>>>

(* Vietnamese given names, female *)
vietnamese_first_names_female ==
    <<<<65, 110>>, <<65, 110, 104>>, <<193, 105>>, <<66, 259, 110, 103>>,
      <<66, 105>>, <<67, 104, 105>>, <<67, 104, 105, 110, 104>>,
      <<68, 117, 110, 103>>, <<68, 105, 7877, 109>>,
      <<71, 105, 97, 110, 103>>, <<71, 105, 97>>, <<72, 224>>,
      <<72, 226, 110>>, <<72, 105, 7873, 110>>, <<72, 111, 224, 105>>,
      <<72, 111, 97>>, <<72, 7891, 110, 103>>, <<72, 117, 121, 7873, 110>>,
      <<72, 432, 417, 110, 103>>, <<75, 104, 225, 110, 104>>,
      <<75, 105, 7873, 117>>, <<76, 97, 109>>, <<76, 97, 110>>,
      <<76, 105, 110, 104>>, <<76, 111, 97, 110>>, <<76, 7897, 99>>,
      <<76, 7921, 117>>, <<76, 121>>, <<77, 97, 105>>, <<77, 7851, 110>>,
      <<77, 121>>, <<78, 103, 97>>, <<78, 103, 104, 105>>,
      <<78, 103, 7885, 99>>, <<78, 104, 105>>, <<78, 104, 432>>,
      <<79, 97, 110, 104>>, <<80, 104, 111, 110, 103>>,
      <<80, 104, 432, 7907, 110, 103>>, <<81, 117, 121, 234, 110>>,
      <<81, 117, 7923, 110, 104>>, <<83, 97, 111>>,
      <<83, 432, 417, 110, 103>>, <<84, 104, 117>>, <<84, 104, 7843, 111>>,
      <<84, 104, 7911, 121>>, <<84, 105, 234, 110>>,
      <<84, 114, 97, 110, 103>>, <<84, 114, 105, 110, 104>>,
      <<84, 114, 250, 99>>, <<84, 250>>, <<84, 117, 121, 7873, 110>>,
      <<84, 432, 7901, 110, 103>>, <<86, 121>>, <<88, 117, 226, 110>>,
      <<89, 7871, 110>>, <<193, 110, 104>>, <<66, 7843, 111>>,
      <<67, 250, 99>>>>

(* unicodedata.normalize('NFD', c) of the precomposed letters of the name *)
(* tables and of the keys of diacritic_map; any other character is its own *)
(* decomposition.                                                          *)
nfd_form ==
    (193 :> <<65, 769>>) @@ (194 :> <<65, 770>>) @@ (202 :> <<69, 770>>) @@
    (212 :> <<79, 770>>) @@ (224 :> <<97, 768>>) @@ (225 :> <<97, 769>>) @@
    (226 :> <<97, 770>>) @@ (234 :> <<101, 770>>) @@ (236 :> <<105, 768>>) @@
    (237 :> <<105, 769>>) @@ (244 :> <<111, 770>>) @@
    (245 :> <<111, 771>>) @@ (249 :> <<117, 768>>) @@
    (250 :> <<117, 769>>) @@ (253 :> <<121, 769>>) @@ (258 :> <<65, 774>>) @@
    (259 :> <<97, 774>>) @@ (297 :> <<105, 771>>) @@ (361 :> <<117, 771>>) @@
    (416 :> <<79, 795>>) @@ (417 :> <<111, 795>>) @@ (431 :> <<85, 795>>) @@
    (432 :> <<117, 795>>) @@ (7841 :> <<97, 803>>) @@
    (7843 :> <<97, 777>>) @@ (7845 :> <<97, 770, 769>>) @@
    (7847 :> <<97, 770, 768>>) @@ (7851 :> <<97, 770, 771>>) @@
    (7853 :> <<97, 803, 770>>) @@ (7855 :> <<97, 774, 769>>) @@
    (7863 :> <<97, 803, 774>>) @@ (7871 :> <<101, 770, 769>>) @@
    (7873 :> <<101, 770, 768>>) @@ (7877 :> <<101, 770, 771>>) @@
    (7879 :> <<101, 803, 770>>) @@ (7883 :> <<105, 803>>) @@
    (7885 :> <<111, 803>>) @@ (7889 :> <<111, 770, 769>>) @@
    (7891 :> <<111, 770, 768>>) @@ (7895 :> <<111, 770, 771>>) @@
    (7897 :> <<111, 803, 770>>) @@ (7901 :> <<111, 795, 768>>) @@
    (7907 :> <<111, 795, 803>>) @@ (7911 :> <<117, 777>>) @@
    (7912 :> <<85, 795, 769>>) @@ (7913 :> <<117, 795, 769>>) @@
    (7919 :> <<117, 795, 771>>) @@ (7921 :> <<117, 795, 803>>) @@
    (7923 :> <<121, 768>>)

(* The code points for which unicodedata.combining is non-zero.            *)
combining == {768, 769, 770, 771, 774, 777, 795, 803}

diacritic_map_Vowels ==
    (258 :> 65) @@ (259 :> 97) @@ (194 :> 65) @@ (226 :> 97) @@
    (202 :> 69) @@ (234 :> 101) @@ (212 :> 79) @@ (244 :> 111) @@
    (416 :> 79) @@ (417 :> 111) @@ (431 :> 85) @@ (432 :> 117)

(* The override map: letter -> ASCII letter.                               *)
diacritic_map ==
    (272 :> 68) @@ (273 :> 100) @@ (258 :> 65) @@ (259 :> 97) @@
    (194 :> 65) @@ (226 :> 97) @@ (202 :> 69) @@ (234 :> 101) @@
    (212 :> 79) @@ (244 :> 111) @@ (416 :> 79) @@ (417 :> 111) @@
    (431 :> 85) @@ (432 :> 117)

(* text -> NFD -> drop the combining marks -> override map.  Each          *)
(* str.replace of the map rewrites single characters into ASCII letters    *)
(* that are no keys, so the loop of replaces is one pass over the text.    *)
remove_vietnamese_diacritics(text) ==
    IF text = <<>>
    THEN text
    ELSE LET nfkd_form == Concat([i \in 1..Len(text) |->
                              IF text[i] \in DOMAIN nfd_form
                              THEN nfd_form[text[i]]
                              ELSE <<text[i]>>])
             ascii_text == SelectSeq(nfkd_form, LAMBDA c : c \notin combining)
         IN  [i \in 1..Len(ascii_text) |->
                IF ascii_text[i] \in DOMAIN diacritic_map
                THEN diacritic_map[ascii_text[i]]
                ELSE ascii_text[i]]

(* str.upper and str.lower of one character: the ASCII letters, and the    *)
(* stroke letter (272 and 273), the one letter of the tables that NFD      *)
(* leaves whole.                                                           *)
Upper(c) == IF c \in 97..122 THEN c - 32 ELSE IF c = 273 THEN 272 ELSE c

Lower(c) == IF c \in 65..90 THEN c + 32 ELSE IF c = 272 THEN 273 ELSE c

(* str.split(): the maximal runs without a space.                          *)
RECURSIVE Split(_)
Split(text) ==
    IF text = <<>> THEN <<>>
    ELSE IF Head(text) = 32 THEN Split(Tail(text))
    ELSE LET stops == {i \in 1..Len(text) : text[i] = 32}
             n == IF stops = {} THEN Len(text) + 1
                  ELSE CHOOSE i \in stops : \A j \in stops : i <= j
         IN  <<SubSeq(text, 1, n - 1)>> \o Split(SubSeq(text, n, Len(text)))

(* ' '.join(parts)                                                         *)
RECURSIVE Join(_)
Join(parts) ==
    IF parts = <<>> THEN <<>>
    ELSE IF Len(parts) = 1 THEN parts[1]
    ELSE parts[1] \o <<32>> \o Join(Tail(parts))

(* part[0].upper() + part[1:].lower() if len(part) > 1 else part.upper()    *)
CapitalizePart(part) ==
    IF Len(part) > 1
    THEN <<Upper(part[1])>> \o [i \in 1..(Len(part) - 1) |-> Lower(part[i + 1])]
    ELSE [i \in 1..Len(part) |-> Upper(part[i])]

Capitalize(text) ==
    LET parts == Split(text)
    IN  Join([i \in 1..Len(parts) |-> CapitalizePart(parts[i])])

(* f"{family_name} {middle_name} {first_name}"                              *)
VietnameseName(family_name, middle_name, first_name) ==
    family_name \o <<32>> \o middle_name \o <<32>> \o first_name

AsciiName(name) == Capitalize(remove_vietnamese_diacritics(name))

MiddleNames(male) ==
    IF male THEN vietnamese_middle_names_male ELSE vietnamese_middle_names_female

FirstNames(male) ==
    IF male THEN vietnamese_first_names_male ELSE vietnamese_first_names_female

(* One call of generate_vietnamese_name on a fresh generator.              *)
GenerateVietnameseName ==
    /\ vietnamese_name = <<>>
    /\ \E male \in BOOLEAN, family_name \in Range(vietnamese_family_names) :
        \E middle_name \in Range(MiddleNames(male)), first_name \in Range(FirstNames(male)) :
            /\ is_male' = male
            /\ vietnamese_name' = VietnameseName(family_name, middle_name, first_name)
            /\ ascii_name' = AsciiName(VietnameseName(family_name, middle_name, first_name))
    /\ UNCHANGED <<etl, customers_data, analysis>>

(* The loader has not run: no data files yet and an empty warehouse.       *)
EtlIdle ==
    /\ files = NoDatasets
    /\ batch = 1
    /\ datasets = NoDatasets
    /\ dim_customer = <<>>
    /\ dim_product = <<>>
    /\ dim_seller = <<>>
    /\ dim_date = <<>>
    /\ fact_sales = <<>>
    /\ pc = "idle"
    /\ stages = <<>>
    /\ raisedIn = "none"
    /\ loggedBy = {}
    /\ result = "none"
    /\ queried = CountQueries(<<>>, <<>>, <<>>)
    /\ quality_report = None
    /\ report_written = FALSE
    /\ runStart = Tables
    /\ runAppends = NoAppends
    /\ lastLoad = [done |-> FALSE, batch |-> 0]
    /\ rerun = FALSE

InitNames ==
    /\ EtlIdle
    /\ GeneratorIdle
    /\ AnalysisIdle

NextNames == GenerateVietnameseName

SpecNames == InitNames /\ [][NextNames]_vars

-----------------------------------------------------------------------------
(* The data generator: the customer loop of generate_customers_dataset *)

MaxGenCustomers == 3

(* The decimal digits of n.                                                *)
RECURSIVE Digits(_)
Digits(n) == IF n < 10 THEN <<48 + n>> ELSE Digits(n \div 10) \o <<48 + (n % 10)>>

(* f"{n:0<width>d}": the digits of n, padded with zeros on the left to     *)
(* at least width characters.                                              *)
FormatInt(n, width) ==
    LET d == Digits(n)
    IN  IF Len(d) < width THEN [i \in 1..(width - Len(d)) |-> 48] \o d ELSE d

(* The draws of generate_vietnamese_name: gender and the positions in the  *)
(* family, middle and first name tables.                                   *)
NameDraws == {<<TRUE, 1, 1, 1>>, <<FALSE, 7, 1, 1>>}

(* The draws of random.randint(10000000, 99999999).                        *)
PhoneDraws == {10000000, 99999999}

(* The draws of random.randint(1, 999).                                    *)
EmailDraws == {1, 999}

DrawnName(d) ==
    VietnameseName(vietnamese_family_names[d[2]], MiddleNames(d[1])[d[3]],
                   FirstNames(d[1])[d[4]])

(* f"09{number:08d}"                                                        *)
Phone(number) == <<48, 57>> \o FormatInt(number, 8)

EmailLocal_Raw(name) == [i \in 1..Len(name) |-> IF name[i] = 32 THEN 46 ELSE name[i]]

(* name.lower().replace(' ', '.')                                           *)
EmailLocal(name) ==
    [i \in 1..Len(name) |-> IF Lower(name[i]) = 32 THEN 46 ELSE Lower(name[i])]

(* "@customer.tgdd.vn"                                                      *)
CustomerDomain == <<64, 99, 117, 115, 116, 111, 109, 101, 114, 46, 116, 103, 100, 100, 46, 118, 110>>

(* f"{name_parts}{number:03d}@customer.tgdd.vn"                             *)
Email(name, number) == EmailLocal(name) \o FormatInt(number, 3) \o CustomerDomain

(* f'KH{i+1:06d}'                                                           *)
CustomerId(i) == <<75, 72>> \o FormatInt(i + 1, 6)

(* Vietnamese cities with regions                                          *)
vietnamese_cities ==
    <<
      [city |-> "Hanoi", state |-> "Hanoi", region |-> "North"],
      [city |-> "Ho Chi Minh City", state |-> "HCMC", region |-> "South"],
      [city |-> "Da Nang", state |-> "Da Nang", region |-> "Central"],
      [city |-> "Can Tho", state |-> "Can Tho", region |-> "South"],
      [city |-> "Hai Phong", state |-> "Hai Phong", region |-> "North"],
      [city |-> "Bien Hoa", state |-> "Dong Nai", region |-> "South"],
      [city |-> "Buon Ma Thuot", state |-> "Dak Lak", region |-> "Central Highlands"],
      [city |-> "Hue", state |-> "Thua Thien Hue", region |-> "Central"],
      [city |-> "Vung Tau", state |-> "Ba Ria-Vung Tau", region |-> "South"],
      [city |-> "Thu Dau Mot", state |-> "Binh Duong", region |-> "South"],
      [city |-> "Rach Gia", state |-> "Kien Giang", region |-> "South"],
      [city |-> "Long Xuyen", state |-> "An Giang", region |-> "South"],
      [city |-> "Thai Nguyen", state |-> "Thai Nguyen", region |-> "North"],
      [city |-> "Thanh Hoa", state |-> "Thanh Hoa", region |-> "North"],
      [city |-> "Nam Dinh", state |-> "Nam Dinh", region |-> "North"],
      [city |-> "Quang Ninh", state |-> "Quang Ninh", region |-> "North"],
      [city |-> "Da Lat", state |-> "Lam Dong", region |-> "Central Highlands"],
      [city |-> "Nha Trang", state |-> "Khanh Hoa", region |-> "Central"],
      [city |-> "Phan Thiet", state |-> "Binh Thuan", region |-> "Central"],
      [city |-> "Quy Nhon", state |-> "Binh Dinh", region |-> "Central"],
      [city |-> "Pleiku", state |-> "Gia Lai", region |-> "Central Highlands"],
      [city |-> "Tuy Hoa", state |-> "Phu Yen", region |-> "Central"],
      [city |-> "Tam Ky", state |-> "Quang Nam", region |-> "Central"],
      [city |-> "Ha Tinh", state |-> "Ha Tinh", region |-> "North"],
      [city |-> "Vinh", state |-> "Nghe An", region |-> "North"],
      [city |-> "Dong Ha", state |-> "Quang Tri", region |-> "Central"],
      [city |-> "Dong Hoi", state |-> "Quang Binh", region |-> "North"]
    >>

(* The draws of random.choice(vietnamese_cities), as positions in the      *)
(* list: a city of the North whose state has its name, and a city of the   *)
(* South whose state has another name.                                     *)
CityDraws == {1, 2}

(* One turn of the loop: a name, a city, a phone and an email are drawn    *)
(* and the record is appended.  The loop ends before customers.csv is      *)
(* written.                                                                *)
GenerateCustomer ==
    /\ Len(customers_data) < MaxGenCustomers
    /\ "customers" \notin DOMAIN files
    /\ \E d \in NameDraws, c \in CityDraws, p \in PhoneDraws, e \in EmailDraws :
          LET name == AsciiName(DrawnName(d))
              city_data == vietnamese_cities[c]
          IN  /\ vietnamese_name' = DrawnName(d)
              /\ ascii_name' = name
              /\ is_male' = d[1]
              /\ customers_data' = Append(customers_data,
                    [customer_id |-> CustomerId(Len(customers_data)),
                     customer_name |-> name,
                     customer_phone |-> Phone(p),
                     customer_email |-> Email(name, e),
                     customer_city |-> city_data.city,
                     customer_state |-> city_data.state,
                     customer_region |-> city_data.region])
    /\ UNCHANGED <<etl, analysis>>

InitGen ==
    /\ EtlIdle
    /\ GeneratorIdle
    /\ AnalysisIdle

NextGen == GenerateCustomer

SpecGen == InitGen /\ [][NextGen]_vars

-----------------------------------------------------------------------------
(* The generated customers.csv, read by the loader *)

(* The largest num_customers whose file is followed through the loader.    *)
MaxCsvRows == 2

(* pd.DataFrame(customers).to_csv(file_path, index=False), and the rows    *)
(* pd.read_csv gets back: the text columns come back as written.           *)
CsvRows(customers) ==
    [i \in 1..Len(customers) |->
        [customer_id |-> customers[i].customer_id,
         customer_city |-> customers[i].customer_city,
         customer_state |-> customers[i].customer_state,
         customer_region |-> customers[i].customer_region]]

(* generate_customers_dataset ends: customers.csv is written.              *)
WriteCustomersCsv ==
    /\ pc = "idle"
    /\ customers_data # <<>>
    /\ Len(customers_data) <= MaxCsvRows
    /\ "customers" \notin DOMAIN files
    /\ files' = [t \in {"customers"} |-> CsvRows(customers_data)]
    /\ UNCHANGED <<generator, analysis, batch, datasets, warehouse, pc, stages, history,
                   runStart, runAppends, loads>>

(* The loader runs over the generated file, up to the customers step of    *)
(* load_data.                                                              *)
NextRegion ==
    \/ GenerateCustomer
    \/ WriteCustomersCsv
    \/ StartRun
    \/ ExtractData
    \/ TransformData
    \/ LoadConnect
    \/ LoadCustomers

SpecRegion == InitGen /\ [][NextRegion]_vars

-----------------------------------------------------------------------------
(* The analysis script: create_rfm_features *)

MaxCustomers == 5

(* pd.Timestamp.now().normalize(), as a day number.                        *)
Today == 401

(* The customers query of load_data_for_ml gives one row per customer with *)
(* at least one order.  A profile is the days since the last order, the    *)
(* order count and the revenue of such a row.                              *)
Profiles ==
    {[days |-> 1, total_orders |-> 20, total_revenue |-> 5000],
     [days |-> 50, total_orders |-> 2, total_revenue |-> 200],
     [days |-> 400, total_orders |-> 1, total_revenue |-> 50],
     [days |-> 1, total_orders |-> 3, total_revenue |-> 300],
     [days |-> 120, total_orders |-> 4, total_revenue |-> 5000],
     [days |-> 200, total_orders |-> 5, total_revenue |-> 700]}

(* The row of customer i: the last order was placed one tick into the day  *)
(* that ended p.days days before today.                                    *)
CustomerRow(i, p) ==
    [customer_id |-> i,
     total_orders |-> p.total_orders,
     total_revenue |-> p.total_revenue,
     last_order_date |-> (Today - p.days - 1) * TicksPerDay + 1]

(* The customers with the profiles f[1], ..., f[n].                        *)
Customers(f) == [i \in DOMAIN f |-> CustomerRow(i, f[i])]

(* A cohort of n customers with pairwise distinct values: the more recent  *)
(* the last order, the more orders and revenue; listed from the most       *)
(* recent customer on, or from the least recent on.                        *)
Cohort(n, recent_first) ==
    [i \in 1..n |->
        LET k == IF recent_first THEN i ELSE n + 1 - i
        IN  CustomerRow(i, [days |-> k * k,
                            total_orders |-> 2 * (n - k) + 1,
                            total_revenue |-> 50 * (n + 1 - k) * (n + 1 - k)])]

(* Series.rank(method='first'): ties are ranked in row order.              *)
RankFirst(x) ==
    [i \in 1..Len(x) |->
        Cardinality({j \in 1..Len(x) : x[j] < x[i] \/ (x[j] = x[i] /\ j <= i)})]

RECURSIVE Insert(_, _)
Insert(v, s) ==
    IF s = <<>> THEN <<v>>
    ELSE IF v <= Head(s) THEN <<v>> \o s
    ELSE <<Head(s)>> \o Insert(v, Tail(s))

(* The values in ascending order.                                          *)
RECURSIVE SortedValues(_)
SortedValues(x) == IF x = <<>> THEN <<>> ELSE Insert(Head(x), SortedValues(Tail(x)))

(* pd.cut's edges instead: q bins of equal width between the extremes.     *)
EdgesOf_EqualWidth(s, q) == [k \in 0..q |-> q * s[1] + k * (s[Len(s)] - s[1])]

(* The quantiles 0, 1/q, ..., 1 of the sorted values s by linear           *)
(* interpolation between the order statistics, each multiplied by q to     *)
(* stay in the integers.                                                   *)
EdgesOf(s, q) ==
    [k \in 0..q |->
        LET h == (Len(s) - 1) * k
            j == h \div q
            r == h % q
        IN  IF r = 0 THEN q * s[j + 1]
            ELSE q * s[j + 1] + r * (s[j + 2] - s[j + 1])]

(* The bin edges of pd.qcut(x, q), times q.                                *)
QcutEdges(x, q) == CHOOSE edges \in {EdgesOf(s, q) : s \in {SortedValues(x)}} : TRUE

(* pd.qcut raises ValueError("Bin edges must be unique") when fewer        *)
(* unique edges than edges are left.                                       *)
QcutRaises(x, q) ==
    \E edges \in {QcutEdges(x, q)} : Cardinality({edges[k] : k \in 0..q}) < q + 1

(* The bin of each value: the bins are closed on the right and the first   *)
(* one includes the lowest edge.                                           *)
BinsOf(x, q, edges) ==
    [i \in 1..Len(x) |->
        IF q * x[i] = edges[0] THEN 1
        ELSE Cardinality({k \in 0..q : edges[k] < q * x[i]})]

QcutBins(x, q) == CHOOSE bins \in {BinsOf(x, q, edges) : edges \in {QcutEdges(x, q)}} : TRUE

RecencyLabels_Ascending == <<1, 2, 3, 4, 5>>

RecencyLabels == <<5, 4, 3, 2, 1>>

ScoreLabels == <<1, 2, 3, 4, 5>>

(* pd.qcut(x, len(labels), labels=labels)                                   *)
Qcut(x, labels) ==
    LET bins == QcutBins(x, Len(labels))
    IN  [i \in 1..Len(x) |-> labels[bins[i]]]

Recency(customers) ==
    [i \in 1..Len(customers) |-> Days(Today * TicksPerDay - customers[i].last_order_date)]

Frequency(customers) == [i \in 1..Len(customers) |-> customers[i].total_orders]

Monetary(customers) == [i \in 1..Len(customers) |-> customers[i].total_revenue]

(* One of the three pd.qcut calls of create_rfm_features raises.           *)
RfmRaises(customers) ==
    \/ QcutRaises(Recency(customers), Len(RecencyLabels))
    \/ QcutRaises(RankFirst(Frequency(customers)), Len(ScoreLabels))
    \/ QcutRaises(Monetary(customers), Len(ScoreLabels))

RfmFeatures(customers) ==
    LET recency_score == Qcut(Recency(customers), RecencyLabels)
        frequency_score == Qcut(RankFirst(Frequency(customers)), ScoreLabels)
        monetary_score == Qcut(Monetary(customers), ScoreLabels)
    IN  [i \in 1..Len(customers) |->
            [customer_id |-> customers[i].customer_id,
             recency |-> Recency(customers)[i],
             frequency |-> Frequency(customers)[i],
             monetary |-> Monetary(customers)[i],
             recency_score |-> recency_score[i],
             frequency_score |-> frequency_score[i],
             monetary_score |-> monetary_score[i],
             rfm_score |-> recency_score[i] + frequency_score[i] + monetary_score[i]]]

(* create_rfm_features returns: self.data['customers_with_rfm'] is set.    *)
CreateRfmFeatures ==
    /\ ml_pc = "rfm"
    /\ RfmRaises(data.customers) = FALSE
    /\ data' = [customers |-> data.customers,
                customers_with_rfm |-> RfmFeatures(data.customers)]
    /\ steps' = Append(steps, "rfm")
    /\ ml_pc' = "segment"
    /\ UNCHANGED <<etl, generator, conn, ml_customer_segments, uncommitted, inserted, returned>>

(* A pd.qcut call raises; create_rfm_features and setup_ml_environment     *)
(* have no handler, so the script ends with the exception.                 *)
CreateRfmRaise ==
    /\ ml_pc = "rfm"
    /\ RfmRaises(data.customers) = TRUE
    /\ steps' = Append(steps, "rfm")
    /\ ml_pc' = "raised"
    /\ returned' = "raised"
    /\ UNCHANGED <<etl, generator, conn, data, ml_customer_segments, uncommitted, inserted>>

-----------------------------------------------------------------------------
(* The analysis script: basic_customer_segmentation *)

(* K_range = range(2, 11)                                                   *)
K_range == 2..10

(* The largest cluster count the elbow loop fits.                          *)
MaxK == CHOOSE k \in K_range : \A j \in K_range : j <= k

optimal_k == 4

segment_names ==
    (0 :> "At Risk Customers") @@ (1 :> "New Customers") @@
    (2 :> "Loyal Customers") @@ (3 :> "VIP Customers")

(* customers[['recency_score', 'frequency_score', 'monetary_score']]        *)
Features(customers) ==
    [i \in 1..Len(customers) |->
        <<customers[i].recency_score, customers[i].frequency_score,
          customers[i].monetary_score>>]

(* KMeans.fit raises ValueError when there are fewer samples than          *)
(* clusters.                                                               *)
KMeansRaises(features, k) == Len(features) < k

KMeansLabelings_OneBased(features, k) ==
    {[i \in 1..Len(features) |-> f[features[i]]] : f \in [Range(features) -> 1..k]}

(* KMeans(n_clusters=k).fit_predict(features): every sample gets the index *)
(* of its nearest centre, one of 0..k-1, so equal samples get equal        *)
(* labels; which centres the library finds is left open.                   *)
KMeansLabelings(features, k) ==
    {[i \in 1..Len(features) |-> f[features[i]]] : f \in [Range(features) -> 0..(k - 1)]}

(* The elbow loop fits k clusters for every k of K_range, then optimal_k   *)
(* clusters are fitted.                                                    *)
SegmentationRaises(customers) ==
    \E k \in K_range \cup {optimal_k} : KMeansRaises(Features(customers), k)

(* Series.map(segment_names): NaN for a label that is no key.              *)
MapSegmentName(cluster) ==
    IF cluster \in DOMAIN segment_names THEN Some(segment_names[cluster]) ELSE None

Segmented(customers, cluster_labels) ==
    [i \in 1..Len(customers) |->
        [customer_id |-> customers[i].customer_id,
         recency |-> customers[i].recency,
         frequency |-> customers[i].frequency,
         monetary |-> customers[i].monetary,
         recency_score |-> customers[i].recency_score,
         frequency_score |-> customers[i].frequency_score,
         monetary_score |-> customers[i].monetary_score,
         rfm_score |-> customers[i].rfm_score,
         cluster |-> cluster_labels[i],
         segment_name |-> MapSegmentName(cluster_labels[i])]]

(* basic_customer_segmentation returns: self.data['customer_segments'] is  *)
(* set.  setup_ml_environment has created customers_with_rfm before.       *)
(* The last step of setup_ml_environment, which then returns True.         *)
BasicCustomerSegmentation ==
    /\ ml_pc = "segment"
    /\ SegmentationRaises(data.customers_with_rfm) = FALSE
    /\ \E cluster_labels \in KMeansLabelings(Features(data.customers_with_rfm), optimal_k) :
          data' = [customers |-> data.customers,
                   customers_with_rfm |-> data.customers_with_rfm,
                   customer_segments |-> Segmented(data.customers_with_rfm, cluster_labels)]
    /\ steps' = Append(steps, "segmentation")
    /\ ml_pc' = "segmented"
    /\ returned' = TRUE
    /\ UNCHANGED <<etl, generator, conn, ml_customer_segments, uncommitted, inserted>>

(* A KMeans fit raises; there is no handler up to main.                    *)
SegmentationRaise ==
    /\ ml_pc = "segment"
    /\ SegmentationRaises(data.customers_with_rfm) = TRUE
    /\ steps' = Append(steps, "segmentation")
    /\ ml_pc' = "raised"
    /\ returned' = "raised"
    /\ UNCHANGED <<etl, generator, conn, data, ml_customer_segments, uncommitted, inserted>>

-----------------------------------------------------------------------------
(* The analysis script: save_segmentation_results(customer_segments) *)

(* The parameters of one INSERT.                                           *)
SegmentRow(customer) ==
    [customer_key |-> 1,
     customer_id |-> customer.customer_id,
     segment_name |-> customer.segment_name,
     segment_id |-> customer.cluster,
     segment_probability |-> "0.85",
     rfm_score |-> customer.rfm_score,
     predicted_date |-> Today,
     model_version |-> "v1.0"]

(* What an earlier save left in ml_customer_segments.                      *)
OldSegments ==
    <<[customer_key |-> 1,
       customer_id |-> 1,
       segment_name |-> Some("VIP Customers"),
       segment_id |-> 3,
       segment_probability |-> "0.85",
       rfm_score |-> 15,
       predicted_date |-> Today - 1,
       model_version |-> "v1.0"]>>

SaveDelete_Keep ==
    /\ ml_pc = "segmented"
    /\ conn = "open"
    /\ uncommitted' = Some(ml_customer_segments)
    /\ inserted' = 0
    /\ ml_pc' = "save_insert"
    /\ UNCHANGED <<etl, generator, steps, conn, data, ml_customer_segments, returned>>

(* cursor.execute("DELETE FROM ml_customer_segments"): the first statement *)
(* opens the transaction of the connection (pyodbc: autocommit off).       *)
SaveDelete ==
    /\ ml_pc = "segmented"
    /\ conn = "open"
    /\ uncommitted' = Some(<<>>)
    /\ inserted' = 0
    /\ ml_pc' = "save_insert"
    /\ UNCHANGED <<etl, generator, steps, conn, data, ml_customer_segments, returned>>

(* One turn of the loop over customers.iterrows().                         *)
SaveInsert ==
    /\ ml_pc = "save_insert"
    /\ inserted < Len(data.customer_segments)
    /\ uncommitted' = Some(Append(Val(uncommitted),
                                  SegmentRow(data.customer_segments[inserted + 1])))
    /\ inserted' = inserted + 1
    /\ UNCHANGED <<etl, generator, steps, conn, data, ml_customer_segments, ml_pc, returned>>

(* self.conn.commit() after the loop; save_segmentation_results returns    *)
(* True.                                                                   *)
SaveCommit ==
    /\ ml_pc = "save_insert"
    /\ inserted = Len(data.customer_segments)
    /\ ml_customer_segments' = Val(uncommitted)
    /\ uncommitted' = None
    /\ returned' = TRUE
    /\ ml_pc' = "saved"
    /\ UNCHANGED <<etl, generator, steps, conn, data, inserted>>

SaveRaise_Autocommit ==
    /\ ml_pc \in {"segmented", "save_insert"}
    /\ conn = "open"
    /\ ml_customer_segments' = IF IsNull(uncommitted) THEN ml_customer_segments
                                                     ELSE Val(uncommitted)
    /\ uncommitted' = None
    /\ returned' = FALSE
    /\ ml_pc' = "saved"
    /\ UNCHANGED <<etl, generator, steps, conn, data, inserted>>

(* The cursor, the DELETE, an INSERT or the commit raises: the handler     *)
(* prints and returns False; nothing is committed or rolled back.          *)
SaveRaise ==
    /\ ml_pc \in {"segmented", "save_insert"}
    /\ conn = "open"
    /\ returned' = FALSE
    /\ ml_pc' = "saved"
    /\ UNCHANGED <<etl, generator, steps, conn, data, ml_customer_segments, uncommitted, inserted>>

-----------------------------------------------------------------------------
(* The analysis script: setup_ml_environment, its first three steps *)

StepOrder == <<"connect", "load", "eda", "rfm", "segmentation">>

ConnectFails_Continue ==
    /\ ml_pc = "connect"
    /\ steps' = Append(steps, "connect")
    /\ ml_pc' = "load"
    /\ UNCHANGED <<etl, generator, conn, data, ml_customer_segments, uncommitted, inserted, returned>>

(* pyodbc.connect raises: connect_to_database returns False and            *)
(* setup_ml_environment returns False.                                     *)
ConnectFails ==
    /\ ml_pc = "connect"
    /\ steps' = Append(steps, "connect")
    /\ returned' = FALSE
    /\ ml_pc' = "setup_failed"
    /\ UNCHANGED <<etl, generator, conn, data, ml_customer_segments, uncommitted, inserted>>

(* connect_to_database returns True: self.conn is set.                     *)
ConnectToDatabase ==
    /\ ml_pc = "connect"
    /\ steps' = Append(steps, "connect")
    /\ conn' = "open"
    /\ ml_pc' = "load"
    /\ UNCHANGED <<etl, generator, data, ml_customer_segments, uncommitted, inserted, returned>>

(* load_data_for_ml returns True: the queries gave up to MaxCustomers      *)
(* customers of any profiles, ties included, or a cohort of more rows.     *)
LoadDataForMl ==
    /\ ml_pc = "load"
    /\ conn = "open"
    /\ steps' = Append(steps, "load")
    /\ \/ \E n \in 1..MaxCustomers :
              \E f \in [1..n -> Profiles] : data' = [customers |-> Customers(f)]
       \/ \E n \in (MaxCustomers + 1)..MaxK, recent_first \in BOOLEAN :
              data' = [customers |-> Cohort(n, recent_first)]
    /\ ml_pc' = "eda"
    /\ UNCHANGED <<etl, generator, conn, ml_customer_segments, uncommitted, inserted, returned>>

(* load_data_for_ml returns False: there is no connection, or a query      *)
(* raised; setup_ml_environment returns False.                             *)
LoadFails ==
    /\ ml_pc = "load"
    /\ steps' = Append(steps, "load")
    /\ returned' = FALSE
    /\ ml_pc' = "setup_failed"
    /\ UNCHANGED <<etl, generator, conn, data, ml_customer_segments, uncommitted, inserted>>

(* exploratory_data_analysis prints and plots; it changes no attribute.    *)
ExploratoryDataAnalysis ==
    /\ ml_pc = "eda"
    /\ steps' = Append(steps, "eda")
    /\ ml_pc' = "rfm"
    /\ UNCHANGED <<etl, generator, conn, data, ml_customer_segments, uncommitted, inserted, returned>>

(* main() has built the object and calls setup_ml_environment.  The table  *)
(* of segments holds nothing or the rows of an earlier save.               *)
InitAnalysis ==
    /\ EtlIdle
    /\ GeneratorIdle
    /\ conn = "none"
    /\ data = NoDatasets
    /\ ml_customer_segments \in {<<>>, OldSegments}
    /\ uncommitted = None
    /\ inserted = 0
    /\ ml_pc = "connect"
    /\ steps = <<>>
    /\ returned = "none"

NextAnalysis ==
    \/ ConnectToDatabase
    \/ ConnectFails
    \/ LoadDataForMl
    \/ LoadFails
    \/ ExploratoryDataAnalysis
    \/ CreateRfmFeatures
    \/ CreateRfmRaise
    \/ BasicCustomerSegmentation
    \/ SegmentationRaise
    \/ SaveDelete
    \/ SaveInsert
    \/ SaveCommit
    \/ SaveRaise

SpecAnalysis == InitAnalysis /\ [][NextAnalysis]_vars

-----------------------------------------------------------------------------
(* Properties *)

StageOrder == <<"extract", "transform", "load", "quality">>

IsPrefix(s, t) == Len(s) <= Len(t) /\ \A i \in 1..Len(s) : s[i] = t[i]

LoadedTables == {"dim_customer", "dim_product", "dim_seller", "fact_sales"}

(* load_data was called in the current run and returned.                   *)
LoadReturned ==
    /\ "load" \in Range(stages)
    /\ raisedIn # "load"
    /\ pc \notin {"load_customers", "load_products", "load_sellers", "load_fact"}

(* C1: a load_data call that follows a returned load_data call on the same *)
(* files appends no row: every table is as it was when the run started.    *)
C1_RerunAppendsNothing ==
    (rerun /\ LoadReturned) => (runAppends = NoAppends /\ Tables = runStart)

C1_Witness ==
    /\ rerun
    /\ LoadReturned
    /\ dim_customer # <<>>
    /\ fact_sales # <<>>

KeyCount(rows, k, x) == Cardinality({i \in 1..Len(rows) : rows[i][k] = x})

(* new is old followed by exactly the rows of incoming whose key k is not  *)
(* a key of old.                                                           *)
AppendsExactlyUnseen(old, new, incoming, k) ==
    /\ Len(new) >= Len(old)
    /\ SubSeq(new, 1, Len(old)) = old
    /\ LET app == SubSeq(new, Len(old) + 1, Len(new))
           seen == {old[i][k] : i \in 1..Len(old)}
       IN  \A x \in {incoming[i][k] : i \in 1..Len(incoming)} \cup {app[i][k] : i \in 1..Len(app)} :
              KeyCount(app, k, x) = IF x \in seen THEN 0 ELSE KeyCount(incoming, k, x)

(* C2: each dimension step appends exactly the incoming rows whose natural *)
(* key is not among the keys the table held at the start of the step; a    *)
(* row whose key is already stored is never appended.                      *)
C2_DimensionKeyDiff ==
    [][ /\ (pc = "load_customers" /\ pc' = "load_products" /\ "customers" \in DOMAIN datasets)
            => AppendsExactlyUnseen(dim_customer, dim_customer', datasets["customers"], "customer_id")
        /\ (pc = "load_products" /\ pc' = "load_sellers" /\ "products" \in DOMAIN datasets)
            => AppendsExactlyUnseen(dim_product, dim_product', datasets["products"], "product_id")
        /\ (pc = "load_sellers" /\ pc' = "load_fact" /\ "sellers" \in DOMAIN datasets)
            => AppendsExactlyUnseen(dim_seller, dim_seller', datasets["sellers"], "seller_id")
      ]_vars

(* The customers step met one stored key and one new key.                  *)
C2_Witness ==
    /\ pc = "load_products"
    /\ "customers" \in DOMAIN datasets
    /\ Len(datasets["customers"]) = 2
    /\ Len(runAppends.dim_customer) = 1
    /\ Len(dim_customer) = 2

(* C3: every fact row whose order has no delivered date has                *)
(* delivery_date_key equal to its order_date_key.                          *)
C3_DeliveryKeyFallback ==
    \A i \in 1..Len(fact_sales) :
        IsNull(fact_sales[i].order_delivered_customer_date)
            => fact_sales[i].delivery_date_key = fact_sales[i].order_date_key

C3_Witness ==
    \E i \in 1..Len(fact_sales) :
        /\ IsNull(fact_sales[i].order_delivered_customer_date)
        /\ ~IsNull(fact_sales[i].order_date_key)
        /\ fact_sales[i].delivery_date_key = fact_sales[i].order_date_key

(* C4: for every merged order-item row with a delivery delay d,            *)
(* is_delivered_ontime = 1 iff d <= 0 and is_fast_delivery = 1 iff d < 0.  *)
C4_DeliveryFlags ==
    "orders_merged" \in DOMAIN datasets =>
        \A i \in 1..Len(datasets["orders_merged"]) :
            LET r == datasets["orders_merged"][i]
            IN  ~IsNull(r.delivery_delay_days) =>
                    /\ (r.is_delivered_ontime = 1) <=> (Val(r.delivery_delay_days) <= 0)
                    /\ (r.is_fast_delivery = 1) <=> (Val(r.delivery_delay_days) < 0)
                    /\ r.is_delivered_ontime \in {0, 1}
                    /\ r.is_fast_delivery \in {0, 1}

(* A merged row at the boundary: delay 0, on time and not fast.            *)
C4_Witness ==
    /\ "orders_merged" \in DOMAIN datasets
    /\ \E i \in 1..Len(datasets["orders_merged"]) :
          LET r == datasets["orders_merged"][i]
          IN  /\ r.delivery_delay_days = Some(0)
              /\ r.is_delivered_ontime = 1
              /\ r.is_fast_delivery = 0

(* C5: when load_data failed, the rows the run appended before the failure *)
(* are still in the warehouse after the run: every table is what it was at *)
(* the start of the run followed by the rows the run appended.             *)
C5_NoRollback ==
    (pc = "returned" /\ raisedIn = "load") =>
        \A t \in LoadedTables : Tables[t] = runStart[t] \o runAppends[t]

C5_Witness ==
    /\ pc = "returned"
    /\ raisedIn = "load"
    /\ result = "failed"
    /\ runAppends.dim_customer # <<>>
    /\ dim_customer # runStart.dim_customer

(* C6 as stated: an exception of transform_data leaves run_etl_pipeline    *)
(* as an exception, and the run did no load and no quality check.          *)
C6_TransformErrorPropagates ==
    (pc = "returned" /\ raisedIn = "transform") =>
        /\ result = "raised"
        /\ "load" \notin Range(stages)
        /\ "quality" \notin Range(stages)

(* C6 amended: an exception of transform_data is caught by no handler but  *)
(* the one of run_etl_pipeline, which logs it and returns status 'failed'; *)
(* the run did no load and no quality check.                               *)
C6_TransformErrorFailsRun ==
    (pc = "returned" /\ raisedIn = "transform") =>
        /\ result = "failed"
        /\ loggedBy = {"run_etl_pipeline"}
        /\ "load" \notin Range(stages)
        /\ "quality" \notin Range(stages)
        /\ Tables = runStart
        /\ ~report_written

C6_Witness ==
    /\ pc = "returned"
    /\ raisedIn = "transform"
    /\ stages = <<"extract", "transform">>

(* C7: when a statement of load_data raised, load_data logged the error    *)
(* and re-raised it, the quality checks were not run and no report file    *)
(* was written in that run.                                                *)
C7_LoadErrorAbortsRun ==
    /\ raisedIn = "load" => ("quality" \notin Range(stages) /\ ~report_written
                               /\ IsNull(quality_report))
    /\ (raisedIn = "load" /\ pc = "returned") =>
            /\ "load_data" \in loggedBy
            /\ "run_etl_pipeline" \in loggedBy
            /\ result = "failed"

C7_Witness ==
    /\ pc = "returned"
    /\ raisedIn = "load"
    /\ loggedBy = {"load_data", "run_etl_pipeline"}
    /\ stages = <<"extract", "transform", "load">>

(* C8: the stages of a run start in the order extract, transform, load,    *)
(* quality-check, each at most once, and a stage starts only while no      *)
(* stage of the run has raised.                                            *)
C8_StageOrder ==
    /\ [](IsPrefix(stages, StageOrder))
    /\ [][Len(stages') > Len(stages) => raisedIn = "none"]_vars

C8_Witness ==
    /\ stages = StageOrder
    /\ result = "success"
    /\ pc = "returned"

NeedsOrderFiles == {"orders", "order_items"}

(* C9: extract_data returns a key for exactly the files that exist, and    *)
(* transform_data and load_data pass over every absent table without       *)
(* raising and without touching its warehouse table.                       *)
C9_MissingFilesSkipped ==
    /\ [](pc = "transform" => DOMAIN datasets = DOMAIN files)
    /\ [](pc \in {"load", "load_customers", "load_products", "load_sellers", "load_fact"} =>
            DOMAIN datasets = DOMAIN files \cup
                (IF NeedsOrderFiles \subseteq DOMAIN files THEN {"orders_merged"} ELSE {}))
    /\ [][ /\ (pc = "extract" /\ DOMAIN files = {}) => pc' = "transform"
           /\ (pc = "transform" /\ DOMAIN files \cap {"customers", "products", "sellers"} = {}
                 /\ ~(NeedsOrderFiles \subseteq DOMAIN files)) => pc' = "load"
           /\ (pc = "load_customers" /\ "customers" \notin DOMAIN files)
                 => (pc' = "load_products" /\ dim_customer' = dim_customer)
           /\ (pc = "load_products" /\ "products" \notin DOMAIN files)
                 => (pc' = "load_sellers" /\ dim_product' = dim_product)
           /\ (pc = "load_sellers" /\ "sellers" \notin DOMAIN files)
                 => (pc' = "load_fact" /\ dim_seller' = dim_seller)
           /\ (pc = "load_fact" /\ ~(NeedsOrderFiles \subseteq DOMAIN files))
                 => (pc' = "quality" /\ fact_sales' = fact_sales)
         ]_vars

(* A run over the customers and orders files alone ran to the end.         *)
C9_Witness ==
    /\ pc = "returned"
    /\ result = "success"
    /\ DOMAIN files = {"customers", "orders"}
    /\ dim_customer # <<>>
    /\ dim_product = <<>>
    /\ fact_sales = <<>>

(* C10: the score of the report is max(0, 100 - 10*(n1+n2)) for the null   *)
(* counts n1 and n2; it lies in 0..100 and is 100 exactly when both counts *)
(* are 0.                                                                  *)
C10_QualityScore ==
    ~IsNull(quality_report) =>
        LET rep == Val(quality_report)
            n1 == rep.null_checks.null_ids
            n2 == rep.null_checks.null_dates
            score == rep.data_quality_score
        IN  /\ score = (IF 100 - 10 * (n1 + n2) > 0 THEN 100 - 10 * (n1 + n2) ELSE 0)
            /\ score \in 0..100
            /\ (score = 100) <=> (n1 = 0 /\ n2 = 0)
            /\ n1 = KeyCount(dim_customer, "customer_id", NullId)
            /\ n2 = Cardinality({i \in 1..Len(fact_sales) :
                                    IsNull(fact_sales[i].order_purchase_timestamp)})

(* A report over more than ten NULLs: the score is floored at 0.           *)
C10_Witness ==
    /\ ~IsNull(quality_report)
    /\ Val(quality_report).null_checks.null_ids + Val(quality_report).null_checks.null_dates > 10
    /\ Val(quality_report).data_quality_score = 0

HasFactRow(oid, item) ==
    \E i \in 1..Len(fact_sales) :
        fact_sales[i].order_id = oid /\ fact_sales[i].order_item_id = item

(* C11: every fact row carries the surrogate keys of dimension rows whose  *)
(* natural keys are the customer_id, product_id and seller_id of its order *)
(* item, and an order item with no dimension row for its customer, product *)
(* or seller has no fact row.                                              *)
C11_FactKeysResolve ==
    fact_sales # <<>> =>
        /\ NeedsOrderFiles \subseteq DOMAIN files
        /\ \A i \in 1..Len(fact_sales) :
              LET f == fact_sales[i]
              IN  \E o \in Range(files["orders"]), it \in Range(files["order_items"]) :
                     /\ o.order_id = f.order_id
                     /\ it.order_id = f.order_id
                     /\ it.order_item_id = f.order_item_id
                     /\ \E c \in Range(dim_customer) :
                           c.customer_key = f.customer_key /\ c.customer_id = o.customer_id
                     /\ \E q \in Range(dim_product) :
                           q.product_key = f.product_key /\ q.product_id = it.product_id
                     /\ \E q \in Range(dim_seller) :
                           q.seller_key = f.seller_key /\ q.seller_id = it.seller_id
        /\ \A o \in Range(files["orders"]), it \in Range(files["order_items"]) :
              (/\ o.order_id = it.order_id
               /\ \/ o.customer_id \notin {c.customer_id : c \in Range(dim_customer)}
                  \/ it.product_id \notin {q.product_id : q \in Range(dim_product)}
                  \/ it.seller_id \notin {q.seller_id : q \in Range(dim_seller)})
              => ~HasFactRow(it.order_id, it.order_item_id)

(* Order o2 was loaded: its item of product p2 has a fact row, its item of *)
(* product p3, which has no dim_product row, has none.                     *)
C11_Witness ==
    /\ LoadReturned
    /\ HasFactRow("o2", 1)
    /\ ~HasFactRow("o2", 2)
    /\ "orders_merged" \in DOMAIN datasets
    /\ \E r \in Range(datasets["orders_merged"]) :
          r.order_id = "o2" /\ r.order_item_id = 2 /\ r.product_id = "p3"
    /\ "p3" \notin {q.product_id : q \in Range(dim_product)}

(* C12: fact_sales holds at most one row per (order_id, order_item_id).    *)
C12_OneRowPerItem ==
    \A i, j \in 1..Len(fact_sales) :
        (fact_sales[i].order_id = fact_sales[j].order_id
            /\ fact_sales[i].order_item_id = fact_sales[j].order_item_id) => i = j

(* Several runs over the same files, with three order items loaded.        *)
C12_Witness ==
    /\ rerun
    /\ LoadReturned
    /\ Len(fact_sales) = 3
    /\ HasFactRow("o1", 1)
    /\ HasFactRow("o1", 2)

AsciiLettersAndSpace == (65..90) \cup (97..122) \cup {32}

(* C13: every name generate_vietnamese_name returns, of either gender,     *)
(* consists of the ASCII letters A-Z and a-z and spaces only.              *)
C13_AsciiNames ==
    \A i \in 1..Len(ascii_name) : ascii_name[i] \in AsciiLettersAndSpace

(* A returned name whose family name starts with the stroke letter (272),  *)
(* which only the override map turns into D, and holds a letter with two   *)
(* marks (7895).                                                           *)
C13_Witness ==
    /\ vietnamese_name # <<>>
    /\ vietnamese_name[1] = 272
    /\ vietnamese_name[2] = 7895
    /\ ascii_name[1] = 68
    /\ ascii_name[2] = 111
    /\ Len(ascii_name) < Len(vietnamese_name) + 1

(* C14: two generated customer records with the same customer_name have    *)
(* the same customer_phone and the same customer_email.                    *)
C14_ContactsFollowName ==
    \A i, j \in 1..Len(customers_data) :
        customers_data[i].customer_name = customers_data[j].customer_name
        => /\ customers_data[i].customer_phone = customers_data[j].customer_phone
           /\ customers_data[i].customer_email = customers_data[j].customer_email

IsDigit(c) == c \in 48..57

(* C14, amended: the phone is 09 and eight digits, whatever the name; the  *)
(* email is the name in lower case with a dot for each space, then three   *)
(* digits, then @customer.tgdd.vn; so two records with the same            *)
(* customer_name have emails that agree outside those three digits.        *)
C14_ContactsDrawn ==
    /\ \A i \in 1..Len(customers_data) :
          LET r == customers_data[i]
              n == Len(r.customer_name)
          IN  /\ Len(r.customer_phone) = 10
              /\ r.customer_phone[1] = 48
              /\ r.customer_phone[2] = 57
              /\ \A k \in 3..10 : IsDigit(r.customer_phone[k])
              /\ Len(r.customer_email) = n + 3 + Len(CustomerDomain)
              /\ \A k \in 1..n :
                    r.customer_email[k] =
                        IF r.customer_name[k] = 32 THEN 46
                        ELSE IF r.customer_name[k] \in 65..90 THEN r.customer_name[k] + 32
                        ELSE r.customer_name[k]
              /\ \A k \in (n + 1)..(n + 3) : IsDigit(r.customer_email[k])
              /\ SubSeq(r.customer_email, n + 4, Len(r.customer_email)) = CustomerDomain
    /\ \A i, j \in 1..Len(customers_data) :
          customers_data[i].customer_name = customers_data[j].customer_name
          => \A k \in 1..Len(customers_data[i].customer_email) :
                k \notin (Len(customers_data[i].customer_name) + 1)
                           ..(Len(customers_data[i].customer_name) + 3)
                => customers_data[i].customer_email[k] = customers_data[j].customer_email[k]

(* Two records with the same name, different phones and different emails.  *)
C14_Witness ==
    \E i, j \in 1..Len(customers_data) :
        /\ customers_data[i].customer_name = customers_data[j].customer_name
        /\ customers_data[i].customer_phone # customers_data[j].customer_phone
        /\ customers_data[i].customer_email # customers_data[j].customer_email

HasRfm == "customers_with_rfm" \in DOMAIN data

(* C15: recency scoring is inverted: a customer with a smaller recency has *)
(* a recency_score at least as high; the lowest recency gets 5, the        *)
(* highest gets 1.                                                         *)
C15_RecencyInverted ==
    HasRfm =>
        LET c == data.customers_with_rfm
        IN  /\ \A a, b \in 1..Len(c) :
                  c[a].recency < c[b].recency => c[a].recency_score >= c[b].recency_score
            /\ \A a \in 1..Len(c) :
                  (\A b \in 1..Len(c) : c[a].recency <= c[b].recency) => c[a].recency_score = 5
            /\ \A a \in 1..Len(c) :
                  (\A b \in 1..Len(c) : c[a].recency >= c[b].recency) => c[a].recency_score = 1

(* Three customers with recencies 1, 50 and 400 days are scored 5, 3, 1.   *)
C15_Witness ==
    /\ HasRfm
    /\ Len(data.customers_with_rfm) = 3
    /\ data.customers_with_rfm[1].recency = 1
    /\ data.customers_with_rfm[2].recency = 50
    /\ data.customers_with_rfm[3].recency = 400
    /\ data.customers_with_rfm[1].recency_score = 5
    /\ data.customers_with_rfm[2].recency_score = 3
    /\ data.customers_with_rfm[3].recency_score = 1

PairwiseDistinct(x) == \A i, j \in 1..Len(x) : x[i] = x[j] => i = j

(* How many rows have each of the scores 1..5.                             *)
BucketSizes(scores) ==
    [b \in 1..5 |-> Cardinality({i \in 1..Len(scores) : scores[i] = b})]

Balanced(scores) ==
    /\ \A i \in 1..Len(scores) : scores[i] \in 1..5
    /\ \E sizes \in {BucketSizes(scores)} : \A a, b \in 1..5 : sizes[a] - sizes[b] <= 1

(* C16: for five or more customers with pairwise distinct recency,         *)
(* frequency and monetary values, each of the three scores splits the      *)
(* customers into five buckets whose sizes differ by at most one.          *)
C16_BalancedBuckets ==
    LET c == data.customers_with_rfm
    IN  (/\ HasRfm
         /\ Len(c) >= 5
         /\ PairwiseDistinct([i \in 1..Len(c) |-> c[i].recency])
         /\ PairwiseDistinct([i \in 1..Len(c) |-> c[i].frequency])
         /\ PairwiseDistinct([i \in 1..Len(c) |-> c[i].monetary]))
        => /\ Balanced([i \in 1..Len(c) |-> c[i].recency_score])
           /\ Balanced([i \in 1..Len(c) |-> c[i].frequency_score])
           /\ Balanced([i \in 1..Len(c) |-> c[i].monetary_score])

(* Seven customers with distinct values: buckets of one and of two rows.   *)
C16_Witness ==
    /\ HasRfm
    /\ Len(data.customers_with_rfm) = 7
    /\ PairwiseDistinct([i \in 1..7 |-> data.customers_with_rfm[i].recency])
    /\ PairwiseDistinct([i \in 1..7 |-> data.customers_with_rfm[i].frequency])
    /\ PairwiseDistinct([i \in 1..7 |-> data.customers_with_rfm[i].monetary])
    /\ \E a, b \in 1..5 :
          /\ BucketSizes([i \in 1..7 |-> data.customers_with_rfm[i].monetary_score])[a] = 1
          /\ BucketSizes([i \in 1..7 |-> data.customers_with_rfm[i].monetary_score])[b] = 2

(* C18: for every non-empty customer set create_rfm_features followed by   *)
(* basic_customer_segmentation finishes without raising.                   *)
C18_SegmentationCompletes == ml_pc # "raised"

HasSegments == "customer_segments" \in DOMAIN data

C20_SaveReplaces ==
    [][(ml_pc # "saved" /\ ml_pc' = "saved" /\ returned' = TRUE)
        => /\ Len(ml_customer_segments') = Len(data.customer_segments)
           /\ \A i \in 1..Len(data.customer_segments) :
                 /\ ml_customer_segments'[i].customer_id = data.customer_segments[i].customer_id
                 /\ ml_customer_segments'[i].segment_id = data.customer_segments[i].cluster
                 /\ ml_customer_segments'[i].segment_name = data.customer_segments[i].segment_name
                 /\ ml_customer_segments'[i].rfm_score = data.customer_segments[i].rfm_score
           /\ \A r \in Range(ml_customer_segments) : r \notin Range(ml_customer_segments')]_vars

(* A save that returned True: the row of the earlier save is gone and the  *)
(* table holds the ten rows of customers.                                  *)
C20_Witness ==
    /\ ml_pc = "saved"
    /\ returned = TRUE
    /\ HasSegments
    /\ Len(data.customer_segments) = 10
    /\ Len(ml_customer_segments) = 10
    /\ \A r \in Range(OldSegments) : r \notin Range(ml_customer_segments)

(* The latest run returned 'success' and loaded the files as they are now. *)
LatestInputLoaded ==
    /\ pc = "returned"
    /\ result = "success"
    /\ lastLoad.done
    /\ lastLoad.batch = batch

(* C21: after successful runs over growing files, every order item of the  *)
(* latest files whose order exists and whose customer, product and seller  *)
(* have dimension rows has a row in fact_sales.                            *)
C21_EveryItemLoaded ==
    (LatestInputLoaded /\ NeedsOrderFiles \subseteq DOMAIN files) =>
        \A o \in Range(files["orders"]), it \in Range(files["order_items"]) :
            (/\ o.order_id = it.order_id
             /\ o.customer_id \in {c.customer_id : c \in Range(dim_customer)}
             /\ it.product_id \in {q.product_id : q \in Range(dim_product)}
             /\ it.seller_id \in {q.seller_id : q \in Range(dim_seller)})
            => HasFactRow(it.order_id, it.order_item_id)

(* C22: no dimension table holds two rows with the same natural key,      *)
(* whatever rows the files contain, a repeated identifier included.        *)
C22_UniqueNaturalKeys ==
    /\ \A i, j \in 1..Len(dim_customer) :
          dim_customer[i].customer_id = dim_customer[j].customer_id => i = j
    /\ \A i, j \in 1..Len(dim_product) :
          dim_product[i].product_id = dim_product[j].product_id => i = j
    /\ \A i, j \in 1..Len(dim_seller) :
          dim_seller[i].seller_id = dim_seller[j].seller_id => i = j

(* C23: load_data only appends: every step leaves the rows already in     *)
(* dim_customer, dim_product, dim_seller, dim_date and fact_sales where    *)
(* they are and as they are, also when the input carries another           *)
(* customer_tier for a stored customer_id.                                 *)
C23_LoadOnlyAppends ==
    [][ /\ IsPrefix(dim_customer, dim_customer')
        /\ IsPrefix(dim_product, dim_product')
        /\ IsPrefix(dim_seller, dim_seller')
        /\ IsPrefix(fact_sales, fact_sales')
        /\ dim_date' = dim_date
      ]_vars

(* The customers step has run over a frame whose row for the stored c1     *)
(* carries a newly drawn tier, and this run's fact step appended a row.    *)
C23_Witness ==
    /\ pc = "quality"
    /\ runStart.dim_customer # <<>>
    /\ runAppends.fact_sales # <<>>
    /\ "customers" \in DOMAIN datasets
    /\ \E r \in Range(datasets["customers"]), c \in Range(dim_customer) :
          /\ r.customer_id = c.customer_id
          /\ c \in Range(runStart.dim_customer)
          /\ r.customer_tier # c.customer_tier

(* C24: run_etl_pipeline never raises to its caller; it returns status    *)
(* 'success' exactly when extract, transform, load and the quality checks  *)
(* all completed without an exception, and status 'failed' otherwise.      *)
C24_NeverRaises ==
    /\ result # "raised"
    /\ pc = "returned" =>
          /\ result \in {"success", "failed"}
          /\ (result = "success") = (raisedIn = "none" /\ stages = StageOrder /\ report_written)
          /\ (result = "failed") = (raisedIn \in Range(StageOrder))

(* The quality checks raised after the load had appended rows.             *)
C24_Witness ==
    /\ pc = "returned"
    /\ result = "failed"
    /\ raisedIn = "quality"
    /\ stages = StageOrder
    /\ runAppends.dim_customer # <<>>
    /\ runAppends.fact_sales # <<>>
    /\ Tables # runStart

(* C25: every row of fact_sales has a non-null order_date_key and a       *)
(* non-null delivery_date_key, whatever dates dim_date holds.              *)
C25_DateKeysNotNull ==
    \A i \in 1..Len(fact_sales) :
        /\ ~IsNull(fact_sales[i].order_date_key)
        /\ ~IsNull(fact_sales[i].delivery_date_key)

(* C26: when a statement of save_segmentation_results raises after the    *)
(* DELETE was executed, the function returns False without committing: the *)
(* committed rows of ml_customer_segments are those of before the call,    *)
(* and they change only by the commit of a save that returns True, to the  *)
(* complete set of rows.                                                   *)
C26_FailedSaveCommitsNothing ==
    /\ [][(~IsNull(uncommitted) /\ ml_pc # "saved" /\ ml_pc' = "saved" /\ returned' = FALSE)
            => ml_customer_segments' = ml_customer_segments]_vars
    /\ [][ml_customer_segments' # ml_customer_segments
            => /\ ml_pc' = "saved"
               /\ returned' = TRUE
               /\ Len(ml_customer_segments') = Len(data.customer_segments)]_vars

(* The third INSERT of ten raised: the DELETE and two INSERTs are pending, *)
(* the function returned False and the table holds the rows of the earlier *)
(* save.                                                                   *)
C26_Witness ==
    /\ ml_pc = "saved"
    /\ returned = FALSE
    /\ uncommitted # None
    /\ inserted = 2
    /\ Len(Val(uncommitted)) = 2
    /\ HasSegments
    /\ Len(data.customer_segments) = 10
    /\ ml_customer_segments = OldSegments

(* C27: setup_ml_environment calls connect, load, exploratory analysis,   *)
(* RFM features and segmentation in that order; when connect or load       *)
(* returns False it returns False at once and calls nothing more; it       *)
(* returns True only after the segmentation has completed.                 *)
C27_SetupStepOrder ==
    /\ IsPrefix(steps, StepOrder)
    /\ conn = "none" => Len(steps) <= 1
    /\ ml_pc = "setup_failed" =>
          /\ returned = FALSE
          /\ steps \in {<<"connect">>, <<"connect", "load">>}
          /\ (steps = <<"connect">>) = (conn = "none")
          /\ "customers_with_rfm" \notin DOMAIN data
          /\ "customer_segments" \notin DOMAIN data
    /\ (ml_pc \in {"connect", "load", "eda", "rfm", "segment"}) => returned = "none"
    /\ (ml_pc = "segmented") =>
          /\ returned = TRUE
          /\ steps = StepOrder
          /\ "customer_segments" \in DOMAIN data

(* A setup that returned True after its five steps.                        *)
C27_Witness ==
    /\ ml_pc = "segmented"
    /\ steps = StepOrder
    /\ conn = "open"
    /\ "customer_segments" \in DOMAIN data

(* C28: for every customer row written by the generator, the             *)
(* customer_region that transform_data produces, and load_data stores in   *)
(* dim_customer, is non-null and equals the region of the generator's      *)
(* table for the row's customer_state.                                     *)
C28_RegionPreserved ==
    LET Generated(id) == CHOOSE g \in Range(customers_data) : g.customer_id = id
        Kept(rows) ==
            \A i \in 1..Len(rows) :
                /\ ~IsNull(rows[i].customer_region)
                /\ rows[i].customer_region = Some(Generated(rows[i].customer_id).customer_region)
    IN  /\ (pc \in {"load", "load_customers", "load_products"} /\ "customers" \in DOMAIN datasets)
            => Kept(datasets["customers"])
        /\ Kept(dim_customer)

(* C29: delivery_delay_days is the whole-day floor of delivered minus     *)
(* estimated: a delivery late by less than a day has delay 0 and is on     *)
(* time and not fast, a delivery early by any amount has delay <= -1 and   *)
(* is fast, and an order with no delivery date has both flags 0.           *)
C29_DelayIsFloor ==
    "orders_merged" \in DOMAIN datasets =>
        \A i \in 1..Len(datasets["orders_merged"]) :
            LET r == datasets["orders_merged"][i]
                d == r.order_delivered_customer_date
                e == r.order_estimated_delivery_date
                late == Val(d) - Val(e)
            IN  /\ (~IsNull(d) /\ ~IsNull(e)) =>
                      /\ ~IsNull(r.delivery_delay_days)
                      /\ Val(r.delivery_delay_days) * TicksPerDay <= late
                      /\ late < (Val(r.delivery_delay_days) + 1) * TicksPerDay
                      /\ (0 <= late /\ late < TicksPerDay) =>
                            /\ r.delivery_delay_days = Some(0)
                            /\ r.is_delivered_ontime = 1
                            /\ r.is_fast_delivery = 0
                      /\ late < 0 =>
                            /\ Val(r.delivery_delay_days) <= -1
                            /\ r.is_fast_delivery = 1
                            /\ r.is_delivered_ontime = 1
                /\ IsNull(d) =>
                      /\ IsNull(r.delivery_delay_days)
                      /\ r.is_delivered_ontime = 0
                      /\ r.is_fast_delivery = 0

(* A merged row delivered less than a day before the estimate: delay -1,   *)
(* flagged fast.                                                           *)
C29_Witness ==
    /\ "orders_merged" \in DOMAIN datasets
    /\ \E i \in 1..Len(datasets["orders_merged"]) :
          LET r == datasets["orders_merged"][i]
              d == r.order_delivered_customer_date
              e == r.order_estimated_delivery_date
          IN  /\ ~IsNull(d)
              /\ ~IsNull(e)
              /\ Val(d) < Val(e)
              /\ Val(e) - Val(d) < TicksPerDay
              /\ r.delivery_delay_days = Some(-1)
              /\ r.is_fast_delivery = 1

====
